---- MODULE Spec2Model ----
(***************************************************************************)
(* Model of the task assignment engine (src/agent/task_assigner.py):       *)
(* TaskAssignerAgent with its roster, backlog and stored assignment list,  *)
(* the dependency ordering, the composite score and the greedy matching    *)
(* loop of assign_tasks; and of the workflow around it                     *)
(* (src/agent/workflow_controller.py, src/agent/pm_planning_agent.py):     *)
(* WorkflowController with its state label, its plan and its history, and  *)
(* the PMPlanningAgent that generates and approves the plan.               *)
(*                                                                         *)
(* Numbers.  The code scores with floats.  Here every score of one task is *)
(* an integer: the float value times ScoreScale(task) = 100 * n * |H|,     *)
(* with n the number of required skills (1 when there is none) and H the   *)
(* task's estimated hours.  All the scores compared for one task share     *)
(* that scale, so the comparison is the comparison of the exact values.    *)
(* Hours are integers.  Float rounding is not modelled: two sums that are  *)
(* equal exactly can differ in the last bit as floats (0.4 + 0.21 + 0.3    *)
(* against 0.4 + 0.24 + 0.27), and then the code's strict > sees a winner  *)
(* where the exact values tie.  The inputs of the specifications below are *)
(* such that no two different sums tie; on every finished call they reach  *)
(* the model and the code give the same result.                            *)
(***************************************************************************)
EXTENDS Integers, Sequences, FiniteSets, TLC

VARIABLES
    employees,      \* self.employees: sequence of Employee records
    tasks,          \* self.tasks: sequence of Task records
    assignments,    \* self.assignments: sequence of TaskAssignment records
    pc,             \* "idle", or "assigning" inside the loop of assign_tasks
    sorted_tasks,   \* assign_tasks' local sorted_tasks (the matching order)
    idx,            \* position in sorted_tasks of the task the loop is at
    outcome,        \* how the last assign_tasks call ended; "none" when the
                    \* last operation was not a finished assign_tasks call
    error_id,       \* task id named by the circular-dependency error, else 0
    last_choice,    \* index in employees chosen for the task just matched
                    \* (0: no employee), and the workloads it was chosen at
    prev_run,       \* result of the previous assign_tasks call when nothing
                    \* was added or loaded since; else the record NoRun
    state,          \* WorkflowController.state: a WorkflowState label
    current_plan,   \* WorkflowController.current_plan: None, or the plan
                    \* object of the planning agent (one object, two names)
    pm_agent_plan,  \* PMPlanningAgent.current_plan: None or a ProjectPlan
    conversation_history,   \* PMPlanningAgent.conversation_history: speakers
    workflow_history,       \* WorkflowController.workflow_history: events
    autosave,       \* content of the file workflow_autosave.json, None
                    \* before the first save
    response,       \* the controller operation called last and its answer
    steps,          \* interactive_edit_loop's local steps: the applied steps
    edits,          \* interactive_edit_loop's local edits: the queued edits
    loop_pc,        \* position of interactive_edit_loop: "start" before the
                    \* loop is entered, "loop" at the prompt, "ended" after
                    \* the final rebuild
    rebuilt,        \* the plan rebuilt when the loop is left, None before
    call            \* the last direct call of apply_edits_to_steps: its
                    \* arguments before and after the call and its result

\* the fields of the task agent
engine_vars == <<employees, tasks, assignments, pc, sorted_tasks, idx, outcome,
                 error_id, last_choice, prev_run>>

\* the fields of the controller and of its planning agent
controller_vars == <<state, current_plan, pm_agent_plan, conversation_history,
                     workflow_history, autosave, response>>

\* the locals of the plan editor
planner_vars == <<steps, edits, loop_pc, rebuilt, call>>

vars == <<employees, tasks, assignments, pc, sorted_tasks, idx, outcome,
          error_id, last_choice, prev_run, state, current_plan, pm_agent_plan,
          conversation_history, workflow_history, autosave, response,
          steps, edits, loop_pc, rebuilt, call>>

\* ------------------------------------------------------------------ bounds

MaxTasks == 3
MaxEmployees == 2
MaxEvents == 5
MaxFeedback == 2
MaxScored == 2
MaxStored == 6
MaxSteps == 2
MaxBatch == 2
MaxQueue == 2

\* ------------------------------------------------------------- small helpers

Min(a, b) == IF a <= b THEN a ELSE b
Max(a, b) == IF a >= b THEN a ELSE b
Abs(a) == IF a >= 0 THEN a ELSE 0 - a
Range(s) == {s[i] : i \in 1..Len(s)}

\* ------------------------------------------------------------- enumerations

TaskPriority == {"low", "medium", "high", "critical"}
TaskComplexity == {"simple", "moderate", "complex", "expert"}

\* ------------------------------------------------------------------ scoring

\* _calculate_skill_match is SkillMatchNum / SkillMatchDen; required_skills
\* and skills are lists: the denominator is the length of the list, while the
\* numerator counts the different skills the two lists share
SkillMatchDen(task) ==
    IF task.required_skills = <<>> THEN 1 ELSE Len(task.required_skills)

\* slip: the overlap with the employee's skills is never computed
SkillMatchNum_AlwaysFull(task, employee) == SkillMatchDen(task)

SkillMatchNum(task, employee) ==
    IF task.required_skills = <<>> THEN 1
    ELSE Cardinality(Range(task.required_skills) \cap Range(employee.skills))

\* slip: an unknown experience string counts as mid
ExperienceLevel_UnknownIsMid(level) ==
    CASE level = "junior" -> 1
      [] level = "mid" -> 2
      [] level = "senior" -> 3
      [] level = "expert" -> 4
      [] OTHER -> 2

\* experience_levels.get(employee.experience_level, 1)
ExperienceLevel(level) ==
    CASE level = "junior" -> 1
      [] level = "mid" -> 2
      [] level = "senior" -> 3
      [] level = "expert" -> 4
      [] OTHER -> 1

\* complexity_levels.get(task.complexity, 1)
ComplexityLevel(complexity) ==
    CASE complexity = "simple" -> 1
      [] complexity = "moderate" -> 2
      [] complexity = "complex" -> 3
      [] complexity = "expert" -> 4
      [] OTHER -> 1

\* _calculate_experience_match, in tenths
ExperienceMatch10(task, employee) ==
    LET employee_level == ExperienceLevel(employee.experience_level)
        task_level == ComplexityLevel(task.complexity)
    IN  IF employee_level >= task_level
        THEN (IF employee_level > task_level THEN 8 ELSE 10)
        ELSE Max(1, 10 - (task_level - employee_level) * 3)

\* slip: the ratio is not capped at 1.0
AvailabilityNum_Uncapped(employee, task) ==
    LET available_hours ==
            employee.availability_hours - employee.current_workload
        H == task.estimated_hours
    IN  IF available_hours <= 0 THEN 0
        ELSE IF H > 0 THEN available_hours
        ELSE 0 - available_hours

\* _calculate_availability_score times |estimated_hours|
AvailabilityNum(employee, task) ==
    LET available_hours ==
            employee.availability_hours - employee.current_workload
        H == task.estimated_hours
    IN  IF available_hours <= 0 THEN 0
        ELSE IF H > 0 THEN Min(H, available_hours)
        ELSE 0 - available_hours

\* the factor every score of this task is multiplied by
ScoreScale(task) == 100 * SkillMatchDen(task) * Abs(task.estimated_hours)

\* composite_score of _find_best_employee_for_task, times ScoreScale(task)
CompositeScore(task, employee) ==
    40 * SkillMatchNum(task, employee) * Abs(task.estimated_hours)
    + 3 * ExperienceMatch10(task, employee) * SkillMatchDen(task)
        * Abs(task.estimated_hours)
    + 30 * SkillMatchDen(task) * AvailabilityNum(employee, task)

\* _calculate_priority_score
PriorityScore(task) ==
    CASE task.priority = "low" -> 1
      [] task.priority = "medium" -> 2
      [] task.priority = "high" -> 3
      [] task.priority = "critical" -> 4
      [] OTHER -> 1

\* ----------------------------------------------------------------- ordering

\* task_dict = {task.id: task for task in self.tasks}: a later task with the
\* same id replaces an earlier one
TaskDictKeys(ts) == {ts[i].id : i \in 1..Len(ts)}

TaskDict(ts, task_id) ==
    LET last == CHOOSE i \in 1..Len(ts) :
                    /\ ts[i].id = task_id
                    /\ \A j \in 1..Len(ts) : ts[j].id = task_id => j <= i
    IN  ts[last]

\* the locals of _sort_tasks_by_priority_and_dependencies that visit works on;
\* err is the exception that left visit, "none" while there is none; entered
\* lists the ids for which the body of visit was run (past its two checks)
VisitStart ==
    [visited |-> {}, temp_visited |-> {}, sorted |-> <<>>,
     err |-> "none", err_id |-> 0, entered |-> <<>>]

RECURSIVE visit(_, _, _), VisitDependencies(_, _, _, _)

\* slip: one set for both marks, filled on entry, so a cycle goes unnoticed
visit_MarkedOnEntry(ts, task_id, st) ==
    IF st.err # "none" \/ task_id \in st.visited THEN st
    ELSE
        LET st1 == [st EXCEPT !.visited = @ \cup {task_id},
                              !.entered = Append(@, task_id)]
            st2 == IF task_id \in TaskDictKeys(ts)
                      /\ TaskDict(ts, task_id).dependencies # <<>>
                   THEN VisitDependencies(
                            ts, TaskDict(ts, task_id).dependencies, 1, st1)
                   ELSE st1
        IN  IF st2.err # "none" THEN st2
            ELSE IF task_id \notin TaskDictKeys(ts)
            THEN [st2 EXCEPT !.err = "KeyError", !.err_id = task_id]
            ELSE [st2 EXCEPT !.sorted = Append(@, TaskDict(ts, task_id))]

\* slip: a task that is already finished is reported as a cycle
visit_RaisesOnVisited(ts, task_id, st) ==
    IF st.err # "none" THEN st
    ELSE IF task_id \in st.temp_visited \/ task_id \in st.visited
    THEN [st EXCEPT !.err = "ValueError", !.err_id = task_id]
    ELSE
        LET st1 == [st EXCEPT !.temp_visited = @ \cup {task_id},
                              !.entered = Append(@, task_id)]
            st2 == IF task_id \in TaskDictKeys(ts)
                      /\ TaskDict(ts, task_id).dependencies # <<>>
                   THEN VisitDependencies(
                            ts, TaskDict(ts, task_id).dependencies, 1, st1)
                   ELSE st1
        IN  IF st2.err # "none" THEN st2
            ELSE IF task_id \notin TaskDictKeys(ts)
            THEN [st2 EXCEPT !.temp_visited = @ \ {task_id},
                             !.visited = @ \cup {task_id},
                             !.err = "KeyError", !.err_id = task_id]
            ELSE [st2 EXCEPT !.temp_visited = @ \ {task_id},
                             !.visited = @ \cup {task_id},
                             !.sorted = Append(@, TaskDict(ts, task_id))]

\* slip: the task is appended before its dependencies are visited
visit_AppendsFirst(ts, task_id, st) ==
    IF st.err # "none" THEN st
    ELSE IF task_id \in st.temp_visited
    THEN [st EXCEPT !.err = "ValueError", !.err_id = task_id]
    ELSE IF task_id \in st.visited THEN st
    ELSE IF task_id \notin TaskDictKeys(ts)
    THEN [st EXCEPT !.err = "KeyError", !.err_id = task_id]
    ELSE
        LET st1 == [st EXCEPT !.temp_visited = @ \cup {task_id},
                              !.entered = Append(@, task_id),
                              !.sorted = Append(@, TaskDict(ts, task_id))]
            st2 == IF TaskDict(ts, task_id).dependencies # <<>>
                   THEN VisitDependencies(
                            ts, TaskDict(ts, task_id).dependencies, 1, st1)
                   ELSE st1
        IN  IF st2.err # "none" THEN st2
            ELSE [st2 EXCEPT !.temp_visited = @ \ {task_id},
                             !.visited = @ \cup {task_id}]

\* slip: no "if task_id in visited: return", so a finished task is visited
\* again
visit_NoVisitedCheck(ts, task_id, st) ==
    IF st.err # "none" THEN st
    ELSE IF task_id \in st.temp_visited
    THEN [st EXCEPT !.err = "ValueError", !.err_id = task_id]
    ELSE
        LET st1 == [st EXCEPT !.temp_visited = @ \cup {task_id},
                              !.entered = Append(@, task_id)]
            st2 == IF task_id \in TaskDictKeys(ts)
                      /\ TaskDict(ts, task_id).dependencies # <<>>
                   THEN VisitDependencies(
                            ts, TaskDict(ts, task_id).dependencies, 1, st1)
                   ELSE st1
        IN  IF st2.err # "none" THEN st2
            ELSE IF task_id \notin TaskDictKeys(ts)
            THEN [st2 EXCEPT !.temp_visited = @ \ {task_id},
                             !.visited = @ \cup {task_id},
                             !.err = "KeyError", !.err_id = task_id]
            ELSE [st2 EXCEPT !.temp_visited = @ \ {task_id},
                             !.visited = @ \cup {task_id},
                             !.sorted = Append(@, TaskDict(ts, task_id))]

\* slip: an id that is no key of task_dict is passed over without an error
visit_IgnoresUnknown(ts, task_id, st) ==
    IF st.err # "none" THEN st
    ELSE IF task_id \in st.temp_visited
    THEN [st EXCEPT !.err = "ValueError", !.err_id = task_id]
    ELSE IF task_id \in st.visited THEN st
    ELSE
        LET st1 == [st EXCEPT !.temp_visited = @ \cup {task_id},
                              !.entered = Append(@, task_id)]
            st2 == IF task_id \in TaskDictKeys(ts)
                      /\ TaskDict(ts, task_id).dependencies # <<>>
                   THEN VisitDependencies(
                            ts, TaskDict(ts, task_id).dependencies, 1, st1)
                   ELSE st1
        IN  IF st2.err # "none" THEN st2
            ELSE IF task_id \notin TaskDictKeys(ts)
            THEN [st2 EXCEPT !.temp_visited = @ \ {task_id},
                             !.visited = @ \cup {task_id}]
            ELSE [st2 EXCEPT !.temp_visited = @ \ {task_id},
                             !.visited = @ \cup {task_id},
                             !.sorted = Append(@, TaskDict(ts, task_id))]

\* the loop "for dep_id in task.dependencies: visit(dep_id)" from position k
VisitDependencies(ts, deps, k, st) ==
    IF k > Len(deps) \/ st.err # "none" THEN st
    ELSE VisitDependencies(ts, deps, k + 1, visit(ts, deps[k], st))

\* the nested function visit(task_id)
visit(ts, task_id, st) ==
    IF st.err # "none" THEN st
    ELSE IF task_id \in st.temp_visited
    THEN [st EXCEPT !.err = "ValueError", !.err_id = task_id]
    ELSE IF task_id \in st.visited THEN st
    ELSE
        LET st1 == [st EXCEPT !.temp_visited = @ \cup {task_id},
                              !.entered = Append(@, task_id)]
            st2 == IF task_id \in TaskDictKeys(ts)
                      /\ TaskDict(ts, task_id).dependencies # <<>>
                   THEN VisitDependencies(
                            ts, TaskDict(ts, task_id).dependencies, 1, st1)
                   ELSE st1
        IN  IF st2.err # "none" THEN st2
            ELSE IF task_id \notin TaskDictKeys(ts)
            THEN [st2 EXCEPT !.temp_visited = @ \ {task_id},
                             !.visited = @ \cup {task_id},
                             !.err = "KeyError", !.err_id = task_id]
            ELSE [st2 EXCEPT !.temp_visited = @ \ {task_id},
                             !.visited = @ \cup {task_id},
                             !.sorted = Append(@, TaskDict(ts, task_id))]

RECURSIVE VisitAll(_, _, _)

\* "for task in self.tasks: if task.id not in visited: visit(task.id)"
VisitAll(ts, k, st) ==
    IF k > Len(ts) \/ st.err # "none" THEN st
    ELSE IF ts[k].id \in st.visited THEN VisitAll(ts, k + 1, st)
    ELSE VisitAll(ts, k + 1, visit(ts, ts[k].id, st))

\* the order built by the visits, before the priority sort
DependencyOrder(ts) == VisitAll(ts, 1, VisitStart)

RECURSIVE InsertByKey(_, _)
\* slip: t goes ahead of the elements with its own key, so ties are reversed
InsertByKey_Unstable(s, t) ==
    IF s = <<>> THEN <<t>>
    ELSE IF PriorityScore(s[1]) > PriorityScore(t)
    THEN <<s[1]>> \o InsertByKey(Tail(s), t)
    ELSE <<t>> \o s

\* place t behind every element whose key is at least t's key: one step of a
\* stable sort in descending key order
InsertByKey(s, t) ==
    IF s = <<>> THEN <<t>>
    ELSE IF PriorityScore(s[1]) >= PriorityScore(t)
    THEN <<s[1]>> \o InsertByKey(Tail(s), t)
    ELSE <<t>> \o s

RECURSIVE SortByPriority(_, _)

\* sorted_tasks.sort(key=priority score, reverse=True): stable, descending
SortByPriority(s, k) ==
    IF k = 0 THEN <<>>
    ELSE InsertByKey(SortByPriority(s, k - 1), s[k])

\* _sort_tasks_by_priority_and_dependencies: the sorted list, or the error
SortTasksByPriorityAndDependencies(ts) ==
    LET st == DependencyOrder(ts)
    IN  IF st.err # "none"
        THEN [err |-> st.err, err_id |-> st.err_id, sorted |-> <<>>]
        ELSE [err |-> "none", err_id |-> 0,
              sorted |-> SortByPriority(st.sorted, Len(st.sorted))]

\* ----------------------------------------------------------------- matching

\* slip: > for >=, so an employee exactly at its availability is scored
SkipsEmployee_Strict(employee) ==
    employee.current_workload > employee.availability_hours

\* "if employee.current_workload >= employee.availability_hours: continue"
SkipsEmployee(employee) ==
    employee.current_workload >= employee.availability_hours

RECURSIVE FindBestFrom(_, _, _, _, _)

\* slip: a hard capacity gate, skipping who cannot take the whole task
FindBestFrom_HardCap(emps, task, k, best, best_score) ==
    IF k > Len(emps) THEN best
    ELSE IF emps[k].availability_hours - emps[k].current_workload
              < task.estimated_hours
    THEN FindBestFrom(emps, task, k + 1, best, best_score)
    ELSE IF task.estimated_hours = 0 THEN -1
    ELSE IF CompositeScore(task, emps[k]) > best_score
    THEN FindBestFrom(emps, task, k + 1, k, CompositeScore(task, emps[k]))
    ELSE FindBestFrom(emps, task, k + 1, best, best_score)

\* slip: >= for >, so the last of the employees with the best score wins
FindBestFrom_LastWins(emps, task, k, best, best_score) ==
    IF k > Len(emps) THEN best
    ELSE IF SkipsEmployee(emps[k])
    THEN FindBestFrom(emps, task, k + 1, best, best_score)
    ELSE IF task.estimated_hours = 0 THEN -1
    ELSE IF CompositeScore(task, emps[k]) >= best_score
    THEN FindBestFrom(emps, task, k + 1, k, CompositeScore(task, emps[k]))
    ELSE FindBestFrom(emps, task, k + 1, best, best_score)

\* the loop of _find_best_employee_for_task from roster position k, with
\* best the position of best_employee (0 for None) and best_score scaled by
\* ScoreScale(task); the result is best_employee's position, or -1 when
\* _calculate_availability_score divides by estimated_hours = 0
FindBestFrom(emps, task, k, best, best_score) ==
    IF k > Len(emps) THEN best
    ELSE IF SkipsEmployee(emps[k])
    THEN FindBestFrom(emps, task, k + 1, best, best_score)
    ELSE IF task.estimated_hours = 0 THEN -1
    ELSE IF CompositeScore(task, emps[k]) > best_score
    THEN FindBestFrom(emps, task, k + 1, k, CompositeScore(task, emps[k]))
    ELSE FindBestFrom(emps, task, k + 1, best, best_score)

\* slip: best_score starts at 1 instead of -1
FindBestEmployeeForTask_StartsAtOne(emps, task) ==
    FindBestFrom(emps, task, 1, 0, ScoreScale(task))

\* _find_best_employee_for_task: best_employee = None, best_score = -1
FindBestEmployeeForTask(emps, task) ==
    FindBestFrom(emps, task, 1, 0, 0 - ScoreScale(task))

\* TaskAssignment(task_id, employee_id, assigned_hours)
TaskAssignment(task, employee) ==
    [task_id |-> task.id, employee_id |-> employee.id,
     assigned_hours |-> task.estimated_hours]

\* slip: the workloads of the run before are kept
ResetWorkloads_Kept(emps) == emps

\* "for employee in self.employees: employee.current_workload = 0.0"
ResetWorkloads(emps) ==
    [i \in 1..Len(emps) |-> [emps[i] EXCEPT !.current_workload = 0]]

Workloads(emps) == [i \in 1..Len(emps) |-> emps[i].current_workload]

NoRun == [valid |-> FALSE, assignments |-> <<>>, workloads |-> <<>>]
NoChoice == [made |-> FALSE, task |-> 0, best |-> 0, before |-> <<>>]

\* Python's None, for a plan or a file that is not there: a record, as what
\* it is compared with is one
None == [none |-> TRUE]

\* no controller operation was called yet
NoResponse == [op |-> "none", msg |-> "none"]

\* the dataclasses Task and Employee, with the fields the code reads
Task(id, required_skills, estimated_hours, priority, complexity, deps) ==
    [id |-> id, required_skills |-> required_skills,
     estimated_hours |-> estimated_hours, priority |-> priority,
     complexity |-> complexity, dependencies |-> deps]

Employee(id, skills, experience_level, availability_hours) ==
    [id |-> id, skills |-> skills, experience_level |-> experience_level,
     availability_hours |-> availability_hours, current_workload |-> 0]

\* ------------------------------------------------------------------ summary

\* slip: the ratio is not turned into a percentage
UtilizationPercentage_Ratio(emp) ==
    IF emp.availability_hours > 0
    THEN [num |-> emp.current_workload, den |-> emp.availability_hours]
    ELSE [num |-> 0, den |-> 1]

\* utilization_percentage of get_assignment_summary, as the fraction num / den:
\* current_workload / availability_hours * 100 if availability_hours > 0 else 0
UtilizationPercentage(emp) ==
    IF emp.availability_hours > 0
    THEN [num |-> emp.current_workload * 100, den |-> emp.availability_hours]
    ELSE [num |-> 0, den |-> 1]

\* get_assignment_summary(): a view of the stored lists, which it leaves alone
\* (employee_name, like every name and title, is not modelled)
get_assignment_summary ==
    [total_tasks |-> Len(tasks),
     total_employees |-> Len(employees),
     assigned_tasks |-> Len(assignments),
     unassigned_tasks |-> Len(tasks) - Len(assignments),
     assignments |-> assignments,
     employee_workloads |->
         [i \in 1..Len(employees) |->
             [employee_id |-> employees[i].id,
              current_workload |-> employees[i].current_workload,
              availability |-> employees[i].availability_hours,
              utilization_percentage |-> UtilizationPercentage(employees[i])]]]

\* ----------------------------------------------------------- planning agent
\* Texts.  A text is modelled by what the code reads of it: words, the set of
\* the keywords that occur in its lower-cased form (the code tests
\* "word in text", so a keyword inside a longer word counts); for the
\* requirements of a project also clauses, the stripped non-empty parts that
\* splitting at the first delimiter found yields (none when no delimiter is
\* found), and stripped, the whole text stripped; for a feedback also rest,
\* what is left of it once "add requirement" or "add milestone" and "add"
\* are taken out and it is stripped.  Titles, dates and the plan id, which
\* no decision reads, are left out, except the titles of the milestones.
\* A list field that is None or [], both false for every reader, is <<>>.

PlanStatus == {"draft", "in_review", "approved", "archived"}
MilestoneType == {"planning", "development", "testing", "deployment", "launch"}

\* the format f"{n:02d}"
Format02d(n) == IF n < 10 THEN "0" \o ToString(n) ELSE ToString(n)

TemplateMilestone(type, duration_days, title) ==
    [type |-> type, duration_days |-> duration_days, title |-> title]

\* _load_plan_templates, as the sequence of its (name, template) items
PlanTemplates ==
    <<[name |-> "web_app",
       milestones |->
           <<TemplateMilestone("planning", 7, "Requirements & Design"),
             TemplateMilestone("development", 21, "Core Development"),
             TemplateMilestone("testing", 7, "Testing & QA"),
             TemplateMilestone("deployment", 3, "Deployment"),
             TemplateMilestone("launch", 2, "Launch & Monitoring")>>],
      [name |-> "mobile_app",
       milestones |->
           <<TemplateMilestone("planning", 10, "UX/UI Design & Planning"),
             TemplateMilestone("development", 35, "App Development"),
             TemplateMilestone("testing", 14, "Testing & Beta"),
             TemplateMilestone("deployment", 7, "App Store Submission"),
             TemplateMilestone("launch", 3, "Launch & Marketing")>>],
      [name |-> "api_service",
       milestones |->
           <<TemplateMilestone("planning", 5, "API Design & Architecture"),
             TemplateMilestone("development", 14, "Backend Development"),
             TemplateMilestone("testing", 7, "API Testing"),
             TemplateMilestone("deployment", 3, "Infrastructure Setup"),
             TemplateMilestone("launch", 2, "Documentation & Launch")>>]>>

\* self.plan_templates.get(project_type, {}).get("milestones", [])
TemplateOf(project_type) ==
    IF \E t \in 1..Len(PlanTemplates) : PlanTemplates[t].name = project_type
    THEN PlanTemplates[CHOOSE t \in 1..Len(PlanTemplates) :
                           PlanTemplates[t].name = project_type].milestones
    ELSE <<>>

\* _classify_project_type
ClassifyProjectType(requirements) ==
    IF requirements.words \cap {"mobile", "app", "ios", "android"} # {}
    THEN "mobile_app"
    ELSE IF requirements.words
              \cap {"api", "service", "backend", "microservice"} # {}
    THEN "api_service"
    ELSE "web_app"

Milestone(id, title, description, type, dependencies, deliverables, criteria) ==
    [id |-> id, title |-> title, description |-> description, type |-> type,
     dependencies |-> dependencies, deliverables |-> deliverables,
     success_criteria |-> criteria]

\* _generate_milestones: position i here is enumerate's i + 1, so the id is
\* milestone_{i:02d} and the dependency of every milestone but the first is
\* the id of the one before, milestone_{i-1:02d}
GenerateMilestones(project_type) ==
    LET template == TemplateOf(project_type)
    IN  [i \in 1..Len(template) |->
            Milestone("milestone_" \o Format02d(i),
                      template[i].title,
                      "Complete " \o template[i].title \o " phase",
                      template[i].type,
                      IF i > 1 THEN <<"milestone_" \o Format02d(i - 1)>>
                               ELSE <<>>,
                      <<"Deliverable for " \o template[i].title>>,
                      <<"Successfully complete " \o template[i].title>>)]

\* _extract_requirements: at most ten of the clauses, and the whole text when
\* there is none
ExtractRequirements(requirements) ==
    IF requirements.clauses = <<>> THEN <<requirements.stripped>>
    ELSE SubSeq(requirements.clauses, 1, Min(10, Len(requirements.clauses)))

RECURSIVE SumDurations(_, _)

SumDurations(template, n) ==
    IF n = 0 THEN 0
    ELSE SumDurations(template, n - 1) + template[n].duration_days

\* _generate_initial_plan: the ProjectPlan it stores
GenerateInitialPlan(requirements) ==
    LET project_type == ClassifyProjectType(requirements)
    IN  [requirements |-> ExtractRequirements(requirements),
         milestones |-> GenerateMilestones(project_type),
         estimated_duration_days |->
             SumDurations(TemplateOf(project_type),
                          Len(TemplateOf(project_type))),
         status |-> "draft"]

\* slip: an approval is recognised before a request to add something
FeedbackKind_ApprovalFirst(feedback) ==
    IF feedback.words \cap {"approve", "final", "done", "complete"} # {}
    THEN "approve"
    ELSE IF feedback.words \cap {"add", "new", "include"} # {} THEN "add"
    ELSE IF feedback.words \cap {"change", "modify", "update", "edit"} # {}
    THEN "modify"
    ELSE IF feedback.words \cap {"remove", "delete", "exclude"} # {}
    THEN "remove"
    ELSE IF feedback.words \cap {"timeline", "schedule", "duration"} # {}
    THEN "timeline"
    ELSE "general"

\* the branch _process_feedback_and_update takes
FeedbackKind(feedback) ==
    IF feedback.words \cap {"add", "new", "include"} # {} THEN "add"
    ELSE IF feedback.words \cap {"change", "modify", "update", "edit"} # {}
    THEN "modify"
    ELSE IF feedback.words \cap {"remove", "delete", "exclude"} # {}
    THEN "remove"
    ELSE IF feedback.words \cap {"timeline", "schedule", "duration"} # {}
    THEN "timeline"
    ELSE IF feedback.words \cap {"approve", "final", "done", "complete"} # {}
    THEN "approve"
    ELSE "general"

\* _handle_add_request: the plan it leaves
HandleAddRequest(plan, feedback) ==
    IF "requirement" \in feedback.words /\ feedback.rest # ""
    THEN [plan EXCEPT !.requirements = Append(@, feedback.rest)]
    ELSE IF "milestone" \in feedback.words /\ feedback.rest # ""
    THEN [plan EXCEPT !.milestones =
             Append(@, Milestone(
                 "milestone_" \o Format02d(Len(plan.milestones) + 1),
                 feedback.rest, "Complete " \o feedback.rest, "planning",
                 <<>>, <<>>, <<>>))]
    ELSE plan

\* _process_feedback_and_update: the plan it leaves (updated_at is not
\* modelled); only an add request and an approval change the plan
ProcessFeedbackAndUpdate(plan, feedback) ==
    CASE FeedbackKind(feedback) = "add" -> HandleAddRequest(plan, feedback)
      [] FeedbackKind(feedback) = "approve"
           -> [plan EXCEPT !.status = "approved"]
      [] OTHER -> plan

\* ------------------------------------------------------------ plan editor
\* src/agent/planner.py. A text is the sequence of its words and of the
\* whitespace characters between them; a step is a dict with the keys of a
\* plan step; an edit is a dict that may lack any of its keys

Whitespace == " "
NewStepText == <<"New", Whitespace, "step">>
NoCall == [made |-> FALSE]

\* str.strip(): the text without its leading and trailing whitespace
RECURSIVE LStrip(_)
LStrip(text) ==
    IF text # <<>> /\ Head(text) = Whitespace THEN LStrip(Tail(text)) ELSE text

RECURSIVE RStrip(_)
RStrip(text) ==
    IF text # <<>> /\ text[Len(text)] = Whitespace
    THEN RStrip(SubSeq(text, 1, Len(text) - 1))
    ELSE text

Strip(text) == RStrip(LStrip(text))

\* " ".join(parts)
RECURSIVE Join(_)
Join(parts) ==
    IF Len(parts) <= 1
    THEN parts
    ELSE <<Head(parts), Whitespace>> \o Join(Tail(parts))

\* str.lower() on the action and command words that occur
Lower(word) ==
    CASE word = "EDIT" -> "edit"
      [] word = "Add" -> "add"
      [] word = "Remove" -> "remove"
      [] word = "MOVE" -> "move"
      [] word = "Show" -> "show"
      [] word = "DONE" -> "done"
      [] OTHER -> word

\* dict.get(key, default), and dict.get(key) is None
Get(e, key, default) == IF key \in DOMAIN e THEN e[key] ELSE default
Missing(e, key) == key \notin DOMAIN e

\* list.insert(i, x) and list.pop(i) of Python, i counted from 0
ListInsert_Appends(s, i, x) == Append(s, x)

ListInsert(s, i, x) ==
    LET k == IF i < 0 THEN Max(i + Len(s), 0) ELSE Min(i, Len(s))
    IN  SubSeq(s, 1, k) \o <<x>> \o SubSeq(s, k + 1, Len(s))

ListPop(s, i) ==
    [item |-> s[i + 1], rest |-> SubSeq(s, 1, i) \o SubSeq(s, i + 2, Len(s))]

NewStep(task) ==
    [task |-> task, inputs |-> <<>>, tool_id |-> "llm_tool", output |-> None]

\* steps = [s.copy() for s in original_steps]: a new list of new dicts. The
\* working list is kept with the argument it was made from; ref is the
\* position in the argument of the dict an entry is, 0 for a dict of its own
CopySteps_SameDicts(original_steps) ==
    [arg |-> original_steps,
     steps |-> [i \in 1..Len(original_steps) |->
                   [ref |-> i, rec |-> original_steps[i]]]]

CopySteps(original_steps) ==
    [arg |-> original_steps,
     steps |-> [i \in 1..Len(original_steps) |->
                   [ref |-> 0, rec |-> original_steps[i]]]]

\* steps[index]["task"] = new_task: written to the dict the entry is
SetTask(w, index, new_task) ==
    LET ref == w.steps[index + 1].ref
    IN  [arg |-> IF ref = 0
                 THEN w.arg
                 ELSE [w.arg EXCEPT ![ref] =
                          [k \in DOMAIN @ \cup {"task"} |->
                              IF k = "task" THEN new_task ELSE @[k]]],
         steps |-> [w.steps EXCEPT ![index + 1].rec =
                       [k \in DOMAIN @ \cup {"task"} |->
                           IF k = "task" THEN new_task ELSE @[k]]]]

\* one pass of the loop "for e in edits"
ApplyEdit(w, e) ==
    LET a == Lower(Get(e, "action", ""))
        n == Len(w.steps)
    IN  CASE a = "edit" ->
                IF Missing(e, "index") \/ e.index < 0 \/ e.index >= n
                THEN w
                ELSE LET new_task == Strip(Get(e, "task", <<>>))
                     IN  IF new_task = <<>>
                         THEN w
                         ELSE SetTask(w, e.index, new_task)
          [] a = "add" ->
                LET new_step == NewStep(Get(e, "task", NewStepText))
                    entry == [ref |-> 0, rec |-> new_step]
                IN  IF Missing(e, "index") \/ e.index < 0 \/ e.index > n
                    THEN [w EXCEPT !.steps = Append(@, entry)]
                    ELSE [w EXCEPT !.steps = ListInsert(@, e.index, entry)]
          [] a = "remove" ->
                IF Missing(e, "index") \/ e.index < 0 \/ e.index >= n
                THEN w
                ELSE [w EXCEPT !.steps = ListPop(@, e.index).rest]
          [] a = "move" ->
                IF Missing(e, "index") \/ Missing(e, "to_index")
                THEN w
                ELSE IF \/ e.index < 0
                        \/ e.index >= n
                        \/ e.to_index < 0
                        \/ e.to_index > n
                     THEN w
                     ELSE LET p == ListPop(w.steps, e.index)
                          IN  [w EXCEPT !.steps =
                                  ListInsert(p.rest, e.to_index, p.item)]
          [] OTHER -> w

RECURSIVE ApplyEditsFrom(_, _, _)
ApplyEditsFrom(w, batch, k) ==
    IF k > Len(batch)
    THEN w
    ELSE ApplyEditsFrom(ApplyEdit(w, batch[k]), batch, k + 1)

\* apply_edits_to_steps(original_steps, edits): the list returned, and the
\* argument as the call leaves it
ApplyEditsToSteps(original_steps, batch) ==
    LET w == ApplyEditsFrom(CopySteps(original_steps), batch, 1)
    IN  [original_steps |-> w.arg,
         steps |-> [i \in 1..Len(w.steps) |-> w.steps[i].rec]]

\* print_steps(steps): the task text shown on each line
PrintSteps(ss) ==
    [i \in 1..Len(ss) |->
        IF Get(ss[i], "task", <<>>) # <<>>
        THEN ss[i].task
        ELSE IF Get(ss[i], "description", <<>>) # <<>>
             THEN ss[i].description
             ELSE <<"<no task text>">>]

\* rebuild_plan_from_steps(objective, project_idea, steps): one llm step for
\* each step, with the step's task text
RebuildPlanFromSteps(ss) ==
    [steps |-> [i \in 1..Len(ss) |->
                   IF Get(ss[i], "task", <<>>) # <<>>
                   THEN ss[i].task
                   ELSE <<"Perform", Whitespace, "the", Whitespace,
                          "described", Whitespace, "task">>]]

\* --------------------------------------------------------------- operations
\* of the task agent, called on the agent itself: the controller that may hold
\* the agent is not involved

Init ==
    /\ employees = <<>>
    /\ tasks = <<>>
    /\ assignments = <<>>
    /\ pc = "idle"
    /\ sorted_tasks = <<>>
    /\ idx = 0
    /\ outcome = "none"
    /\ error_id = 0
    /\ last_choice = NoChoice
    /\ prev_run = NoRun
    /\ state = "planning"
    /\ current_plan = None
    /\ pm_agent_plan = None
    /\ conversation_history = <<>>
    /\ workflow_history = <<>>
    /\ autosave = None
    /\ response = NoResponse
    /\ steps = <<>>
    /\ edits = <<>>
    /\ loop_pc = "start"
    /\ rebuilt = None
    /\ call = NoCall

\* add_employee(employee)
add_employee(employee) ==
    /\ pc = "idle"
    /\ UNCHANGED <<controller_vars, planner_vars>>
    /\ employees' = Append(employees, employee)
    /\ outcome' = "none"
    /\ error_id' = 0
    /\ last_choice' = NoChoice
    /\ prev_run' = NoRun
    /\ UNCHANGED <<tasks, assignments, pc, sorted_tasks, idx>>

\* add_task(task)
add_task(task) ==
    /\ pc = "idle"
    /\ UNCHANGED <<controller_vars, planner_vars>>
    /\ tasks' = Append(tasks, task)
    /\ outcome' = "none"
    /\ error_id' = 0
    /\ last_choice' = NoChoice
    /\ prev_run' = NoRun
    /\ UNCHANGED <<employees, assignments, pc, sorted_tasks, idx>>

\* load_from_json(filename), for a file with the keys employees and tasks:
\* both lists are replaced, the stored assignments are not touched
load_from_json(file_employees, file_tasks) ==
    /\ pc = "idle"
    /\ UNCHANGED <<controller_vars, planner_vars>>
    /\ employees' = file_employees
    /\ tasks' = file_tasks
    /\ outcome' = "none"
    /\ error_id' = 0
    /\ last_choice' = NoChoice
    /\ prev_run' = NoRun
    /\ UNCHANGED <<assignments, pc, sorted_tasks, idx>>

\* option 8 of the command line's interactive_mode: roster and backlog are
\* cleared and filled with add_employee and add_task from the file read; the
\* stored assignments are not touched
cli_load(new_employees, new_tasks) ==
    /\ pc = "idle"
    /\ UNCHANGED <<controller_vars, planner_vars>>
    /\ employees' = new_employees
    /\ tasks' = new_tasks
    /\ outcome' = "none"
    /\ error_id' = 0
    /\ last_choice' = NoChoice
    /\ prev_run' = NoRun
    /\ UNCHANGED <<assignments, pc, sorted_tasks, idx>>

\* what the call that starts now is compared with: the result of the call that
\* returned last, when nothing was added since
RunBefore ==
    IF outcome = "returned"
    THEN [valid |-> TRUE, assignments |-> assignments,
          workloads |-> Workloads(employees)]
    ELSE NoRun

\* slip: the reset comes first, so a failed ordering has already emptied the
\* assignments and the workloads
AssignBegin_ResetFirst ==
    /\ pc = "idle"
    /\ UNCHANGED <<controller_vars, planner_vars>>
    /\ LET r == SortTasksByPriorityAndDependencies(tasks)
       IN  IF r.err # "none"
           THEN /\ outcome' = r.err
                /\ error_id' = IF r.err = "ValueError" THEN r.err_id ELSE 0
                /\ prev_run' = NoRun
                /\ last_choice' = NoChoice
                /\ assignments' = <<>>
                /\ employees' = ResetWorkloads(employees)
                /\ UNCHANGED <<tasks, pc, sorted_tasks, idx>>
           ELSE /\ sorted_tasks' = r.sorted
                /\ idx' = 1
                /\ assignments' = <<>>
                /\ employees' = ResetWorkloads(employees)
                /\ pc' = "assigning"
                /\ outcome' = "none"
                /\ error_id' = 0
                /\ prev_run' = RunBefore
                /\ last_choice' = NoChoice
                /\ UNCHANGED tasks

\* slip: the stored assignments are not emptied, so a run appends to the
\* list of the run before
AssignBegin_KeepsAssignments ==
    /\ pc = "idle"
    /\ UNCHANGED <<controller_vars, planner_vars>>
    /\ LET r == SortTasksByPriorityAndDependencies(tasks)
       IN  IF r.err # "none"
           THEN /\ outcome' = r.err
                /\ error_id' = IF r.err = "ValueError" THEN r.err_id ELSE 0
                /\ prev_run' = NoRun
                /\ last_choice' = NoChoice
                /\ UNCHANGED <<employees, tasks, assignments, pc,
                               sorted_tasks, idx>>
           ELSE /\ sorted_tasks' = r.sorted
                /\ idx' = 1
                /\ employees' = ResetWorkloads(employees)
                /\ pc' = "assigning"
                /\ outcome' = "none"
                /\ error_id' = 0
                /\ prev_run' = RunBefore
                /\ last_choice' = NoChoice
                /\ UNCHANGED <<tasks, assignments>>

\* assign_tasks up to the loop: the ordering, which may raise, then the reset
\* of the assignments and of every workload
AssignBegin ==
    /\ pc = "idle"
    /\ UNCHANGED <<controller_vars, planner_vars>>
    /\ LET r == SortTasksByPriorityAndDependencies(tasks)
       IN  IF r.err # "none"
           THEN /\ outcome' = r.err
                /\ error_id' = IF r.err = "ValueError" THEN r.err_id ELSE 0
                /\ prev_run' = NoRun
                /\ last_choice' = NoChoice
                /\ UNCHANGED <<employees, tasks, assignments, pc,
                               sorted_tasks, idx>>
           ELSE /\ sorted_tasks' = r.sorted
                /\ idx' = 1
                /\ assignments' = <<>>
                /\ employees' = ResetWorkloads(employees)
                /\ pc' = "assigning"
                /\ outcome' = "none"
                /\ error_id' = 0
                /\ prev_run' = RunBefore
                /\ last_choice' = NoChoice
                /\ UNCHANGED tasks

\* slip: = for +=, so the workload holds the hours of the last task only
AssignStep_SetsWorkload ==
    /\ pc = "assigning"
    /\ UNCHANGED <<controller_vars, planner_vars>>
    /\ idx <= Len(sorted_tasks)
    /\ LET task == sorted_tasks[idx]
           best == FindBestEmployeeForTask(employees, task)
       IN  IF best = -1
           THEN /\ pc' = "idle"
                /\ outcome' = "ZeroDivisionError"
                /\ sorted_tasks' = <<>>
                /\ idx' = 0
                /\ last_choice' = NoChoice
                /\ prev_run' = NoRun
                /\ UNCHANGED <<employees, tasks, assignments, error_id>>
           ELSE /\ last_choice' = [made |-> TRUE, task |-> idx, best |-> best,
                                   before |-> employees]
                /\ idx' = idx + 1
                /\ IF best = 0
                   THEN UNCHANGED <<employees, assignments>>
                   ELSE /\ assignments' =
                               Append(assignments,
                                      TaskAssignment(task, employees[best]))
                        /\ employees' =
                               [employees EXCEPT ![best].current_workload =
                                                     task.estimated_hours]
                /\ UNCHANGED <<tasks, pc, sorted_tasks, outcome, error_id,
                               prev_run>>

\* one turn of "for task in sorted_tasks": the choice and the commit
AssignStep ==
    /\ pc = "assigning"
    /\ UNCHANGED <<controller_vars, planner_vars>>
    /\ idx <= Len(sorted_tasks)
    /\ LET task == sorted_tasks[idx]
           best == FindBestEmployeeForTask(employees, task)
       IN  IF best = -1
           THEN /\ pc' = "idle"
                /\ outcome' = "ZeroDivisionError"
                /\ sorted_tasks' = <<>>
                /\ idx' = 0
                /\ last_choice' = NoChoice
                /\ prev_run' = NoRun
                /\ UNCHANGED <<employees, tasks, assignments, error_id>>
           ELSE /\ last_choice' = [made |-> TRUE, task |-> idx, best |-> best,
                                   before |-> employees]
                /\ idx' = idx + 1
                /\ IF best = 0
                   THEN UNCHANGED <<employees, assignments>>
                   ELSE /\ assignments' =
                               Append(assignments,
                                      TaskAssignment(task, employees[best]))
                        /\ employees' =
                               [employees EXCEPT ![best].current_workload =
                                                     @ + task.estimated_hours]
                /\ UNCHANGED <<tasks, pc, sorted_tasks, outcome, error_id,
                               prev_run>>

\* "return self.assignments"
AssignReturn ==
    /\ pc = "assigning"
    /\ UNCHANGED <<controller_vars, planner_vars>>
    /\ idx > Len(sorted_tasks)
    /\ pc' = "idle"
    /\ outcome' = "returned"
    /\ sorted_tasks' = <<>>
    /\ idx' = 0
    /\ last_choice' = NoChoice
    /\ UNCHANGED <<employees, tasks, assignments, error_id, prev_run>>

\* assign_tasks, in the steps the claims about a run need
assign_tasks == AssignBegin \/ AssignStep \/ AssignReturn

\* ---------------------------------------------------- workflow controller

WorkflowState ==
    {"planning", "planning_complete", "assignment", "assignment_complete",
     "completed"}

\* _get_priority_from_milestone_type
PriorityFromMilestoneType(type) ==
    CASE type = "planning" -> "high"
      [] type = "development" -> "high"
      [] type = "testing" -> "medium"
      [] type = "deployment" -> "critical"
      [] type = "launch" -> "critical"
      [] OTHER -> "medium"

\* _get_complexity_from_milestone_type
ComplexityFromMilestoneType(type) ==
    CASE type = "planning" -> "moderate"
      [] type = "development" -> "complex"
      [] type = "testing" -> "moderate"
      [] type = "deployment" -> "moderate"
      [] type = "launch" -> "simple"
      [] OTHER -> "moderate"

RECURSIVE DurationFromTemplates(_, _)

\* the search of _estimate_hours_from_milestone from template t on: the
\* duration of the first milestone of this type in the first template that
\* has one with a positive duration (0: none)
DurationFromTemplates(type, t) ==
    IF t > Len(PlanTemplates) THEN 0
    ELSE LET ms == PlanTemplates[t].milestones
             hits == {k \in 1..Len(ms) : ms[k].type = type}
             first == CHOOSE k \in hits : \A l \in hits : k <= l
         IN  IF hits # {} /\ ms[first].duration_days > 0
             THEN ms[first].duration_days
             ELSE DurationFromTemplates(type, t + 1)

\* _estimate_hours_from_milestone: 8 hours per day, one day by default
EstimateHoursFromMilestone(milestone) ==
    LET duration_days == DurationFromTemplates(milestone.type, 1)
    IN  (IF duration_days = 0 THEN 1 ELSE duration_days) * 8

\* _extract_skills_from_milestone: the keywords of the milestone type
ExtractSkillsFromMilestone(milestone) ==
    CASE milestone.type = "planning" -> <<"project_management", "planning">>
      [] milestone.type = "development" -> <<"programming", "development">>
      [] milestone.type = "testing" -> <<"testing", "qa">>
      [] milestone.type = "deployment" -> <<"devops", "deployment">>
      [] milestone.type = "launch" -> <<"marketing", "launch">>
      [] OTHER -> <<>>

\* dependencies=milestone.dependencies: the task depends on the ids the
\* milestone depends on, which are ids of milestones
TaskDependenciesOf(milestone) == milestone.dependencies

\* _convert_milestones_to_tasks
ConvertMilestonesToTasks(plan) ==
    IF plan = None THEN <<>>
    ELSE [i \in 1..Len(plan.milestones) |->
             [id |-> "task_" \o plan.milestones[i].id,
              required_skills |->
                  ExtractSkillsFromMilestone(plan.milestones[i]),
              estimated_hours |->
                  EstimateHoursFromMilestone(plan.milestones[i]),
              priority |-> PriorityFromMilestoneType(plan.milestones[i].type),
              complexity |->
                  ComplexityFromMilestoneType(plan.milestones[i].type),
              dependencies |-> TaskDependenciesOf(plan.milestones[i])]]

SampleEmployee(id, skills, experience_level, availability_hours) ==
    [id |-> id, skills |-> skills, experience_level |-> experience_level,
     availability_hours |-> availability_hours, current_workload |-> 0]

\* _load_sample_employees: create_sample_team of task_integration.py
CreateSampleTeam ==
    <<SampleEmployee("dev1", <<"python", "django", "postgresql",
                               "programming">>, "senior", 40),
      SampleEmployee("dev2", <<"javascript", "react", "node.js",
                               "programming">>, "mid", 35),
      SampleEmployee("dev3", <<"python", "machine_learning", "data_analysis",
                               "programming">>, "expert", 30),
      SampleEmployee("dev4", <<"html", "css", "javascript", "frontend">>,
                     "junior", 40),
      SampleEmployee("dev5", <<"project_management", "agile",
                               "documentation">>, "senior", 35),
      SampleEmployee("dev6", <<"java", "spring", "database", "programming">>,
                     "mid", 40),
      SampleEmployee("dev7", <<"devops", "docker", "aws", "testing">>,
                     "senior", 30),
      SampleEmployee("dev8", <<"c++", "programming", "testing">>, "mid", 35)>>

\* Milestone.to_dict: deliverables is written from self.dependencies
MilestoneToDict(milestone) ==
    [milestone EXCEPT !.deliverables = milestone.dependencies]

\* ProjectPlan.to_dict
PlanToDict(plan) ==
    IF plan = None THEN None
    ELSE [plan EXCEPT !.milestones =
             [i \in 1..Len(plan.milestones) |->
                 MilestoneToDict(plan.milestones[i])]]

\* save_data of save_workflow (saved_at is not modelled); the to_dict of an
\* employee, a task and an assignment keeps the fields modelled here
SaveData(st, plan, pm_plan, conversation, emps, ts, asg, history) ==
    [state |-> st,
     current_plan |-> PlanToDict(plan),
     pm_agent_data |-> [conversation_history |-> conversation,
                        current_plan |-> PlanToDict(pm_plan)],
     task_agent_data |-> [employees |-> emps, tasks |-> ts,
                          assignments |-> asg],
     workflow_history |-> history]

\* the event _log_workflow_event appends (timestamp and event_data are not
\* modelled)
WorkflowEvent(event_type, st) == [event_type |-> event_type, state |-> st]

RECURSIVE AssignLoop(_, _, _, _)

\* the loop of the task agent's assign_tasks from position k of the matching
\* order, run to its end: the roster and the list it leaves, and the error
\* that left it
AssignLoop(emps, asg, sorted, k) ==
    IF k > Len(sorted)
    THEN [employees |-> emps, assignments |-> asg, outcome |-> "returned"]
    ELSE LET best == FindBestEmployeeForTask(emps, sorted[k])
         IN  IF best = -1
             THEN [employees |-> emps, assignments |-> asg,
                   outcome |-> "ZeroDivisionError"]
             ELSE IF best = 0 THEN AssignLoop(emps, asg, sorted, k + 1)
             ELSE AssignLoop(
                      [emps EXCEPT ![best].current_workload =
                                       @ + sorted[k].estimated_hours],
                      Append(asg, TaskAssignment(sorted[k], emps[best])),
                      sorted, k + 1)

\* the task agent's assign_tasks as one call: what it leaves in the agent
\* and how it ends
AssignTasksCall(emps, ts, asg) ==
    LET r == SortTasksByPriorityAndDependencies(ts)
    IN  IF r.err # "none"
        THEN [employees |-> emps, assignments |-> asg, outcome |-> r.err]
        ELSE AssignLoop(ResetWorkloads(emps), <<>>, r.sorted, 1)

\* the answer of an operation called in a state that does not admit it
Refused(op) == [op |-> op, msg |-> "refused"]

\* start_new_project(project_title, requirements): back to PLANNING with no
\* plan of the controller; the planning agent starts a new conversation and
\* generates a plan only when it holds none
start_new_project(requirements) ==
    /\ UNCHANGED planner_vars
    /\ state' = "planning"
    /\ current_plan' = None
    /\ conversation_history' = <<"pm", "agent">>
    /\ pm_agent_plan' = IF pm_agent_plan = None
                        THEN GenerateInitialPlan(requirements)
                        ELSE pm_agent_plan
    /\ workflow_history' =
           Append(workflow_history,
                  WorkflowEvent("project_started", "planning"))
    /\ response' = [op |-> "start_new_project",
                    msg |-> IF pm_agent_plan = None THEN "initial_plan"
                            ELSE "continue"]
    /\ UNCHANGED <<engine_vars, autosave>>

\* slip: the feedback is processed in every state
FeedbackAdmitted_Always(st) == TRUE

\* "if self.state != WorkflowState.PLANNING: return ..."
FeedbackAdmitted(st) == st = "planning"

\* slip: the status of the plan is not looked at
PlanApproved_AnyPlan(plan) == plan # None

\* "if current_plan and current_plan.status == PlanStatus.APPROVED"
PlanApproved(plan) == plan # None /\ plan.status = "approved"

\* process_planning_feedback(feedback)
process_planning_feedback(feedback) ==
    /\ UNCHANGED planner_vars
    /\ IF ~FeedbackAdmitted(state)
       THEN /\ response' = Refused("process_planning_feedback")
            /\ UNCHANGED <<engine_vars, state, current_plan, pm_agent_plan,
                           conversation_history, workflow_history, autosave>>
       ELSE LET plan == IF pm_agent_plan = None THEN None
                        ELSE ProcessFeedbackAndUpdate(pm_agent_plan, feedback)
                conversation ==
                    IF pm_agent_plan = None THEN conversation_history
                    ELSE conversation_history \o <<"pm", "agent">>
                approved == PlanApproved(plan)
                st == IF approved THEN "planning_complete" ELSE state
                controller_plan == IF approved THEN plan ELSE current_plan
                history ==
                    IF approved
                    THEN Append(workflow_history,
                                WorkflowEvent("plan_approved", st))
                    ELSE workflow_history
            IN  /\ pm_agent_plan' = plan
                /\ conversation_history' = conversation
                /\ state' = st
                /\ current_plan' = controller_plan
                /\ workflow_history' = history
                /\ autosave' = SaveData(st, controller_plan, plan, conversation,
                                        employees, tasks, assignments, history)
                /\ response' =
                       [op |-> "process_planning_feedback",
                        msg |-> IF pm_agent_plan = None THEN "no_active_plan"
                                ELSE FeedbackKind(feedback)]
                /\ UNCHANGED engine_vars

\* transition_to_assignment: the tasks of the plan and the sample team are
\* added to what the task agent holds
transition_to_assignment ==
    /\ UNCHANGED planner_vars
    /\ IF state # "planning_complete"
       THEN /\ response' = Refused("transition_to_assignment")
            /\ UNCHANGED <<engine_vars, state, current_plan, pm_agent_plan,
                           conversation_history, workflow_history, autosave>>
       ELSE IF current_plan = None
       THEN /\ response' = [op |-> "transition_to_assignment",
                            msg |-> "no_approved_plan"]
            /\ UNCHANGED <<engine_vars, state, current_plan, pm_agent_plan,
                           conversation_history, workflow_history, autosave>>
       ELSE /\ state' = "assignment"
            /\ tasks' = tasks \o ConvertMilestonesToTasks(current_plan)
            /\ employees' = employees \o CreateSampleTeam
            /\ outcome' = "none"
            /\ error_id' = 0
            /\ last_choice' = NoChoice
            /\ prev_run' = NoRun
            /\ workflow_history' =
                   Append(workflow_history,
                          WorkflowEvent("transitioned_to_assignment",
                                        "assignment"))
            /\ response' = [op |-> "transition_to_assignment",
                            msg |-> "transitioned"]
            /\ UNCHANGED <<assignments, pc, sorted_tasks, idx, current_plan,
                           pm_agent_plan, conversation_history, autosave>>

\* WorkflowController.assign_tasks: the task agent's assign_tasks as one
\* call; an error of that call is not caught and leaves the controller as it
\* was, with what the call had done to the task agent
controller_assign_tasks ==
    /\ UNCHANGED planner_vars
    /\ IF state # "assignment"
       THEN /\ response' = Refused("assign_tasks")
            /\ UNCHANGED <<engine_vars, state, current_plan, pm_agent_plan,
                           conversation_history, workflow_history, autosave>>
       ELSE LET r == AssignTasksCall(employees, tasks, assignments)
                done == r.outcome = "returned" /\ r.assignments # <<>>
                st == IF done THEN "assignment_complete" ELSE state
                history ==
                    IF done
                    THEN Append(workflow_history,
                                WorkflowEvent("tasks_assigned", st))
                    ELSE workflow_history
            IN  /\ employees' = r.employees
                /\ assignments' = r.assignments
                /\ outcome' = r.outcome
                /\ error_id' = 0
                /\ last_choice' = NoChoice
                /\ prev_run' = NoRun
                /\ state' = st
                /\ workflow_history' = history
                /\ autosave' =
                       IF done
                       THEN SaveData(st, current_plan, pm_agent_plan,
                                     conversation_history, r.employees, tasks,
                                     r.assignments, history)
                       ELSE autosave
                /\ response' =
                       [op |-> "assign_tasks",
                        msg |-> IF done THEN "assignment_complete"
                                ELSE IF r.outcome = "returned"
                                THEN "no_tasks_assigned"
                                ELSE r.outcome]
                /\ UNCHANGED <<tasks, pc, sorted_tasks, idx, current_plan,
                               pm_agent_plan, conversation_history>>

\* save_workflow("workflow_autosave.json"): the file of the auto-save is the
\* one file of the storage directory the model holds
save_workflow ==
    /\ UNCHANGED planner_vars
    /\ autosave' = SaveData(state, current_plan, pm_agent_plan,
                            conversation_history, employees, tasks,
                            assignments, workflow_history)
    /\ response' = [op |-> "save_workflow", msg |-> "saved"]
    /\ UNCHANGED <<engine_vars, state, current_plan, pm_agent_plan,
                   conversation_history, workflow_history>>

\* the Milestone that load_plan_from_dict builds from a saved milestone
MilestoneFromDict(m_data) ==
    Milestone(m_data.id, m_data.title, m_data.description, m_data.type,
              m_data.dependencies, m_data.deliverables,
              m_data.success_criteria)

\* load_plan_from_dict: the ProjectPlan built from a saved plan
PlanFromDict(plan_data) ==
    [requirements |-> plan_data.requirements,
     milestones |->
         [i \in 1..Len(plan_data.milestones) |->
             MilestoneFromDict(plan_data.milestones[i])],
     estimated_duration_days |-> plan_data.estimated_duration_days,
     status |-> plan_data.status]

\* the Employee load_workflow builds from a saved employee: the saved
\* current_workload is not passed on
EmployeeFromDict(emp_data) ==
    Employee(emp_data.id, emp_data.skills, emp_data.experience_level,
             emp_data.availability_hours)

\* the Task load_workflow builds from a saved task
TaskFromDict(task_data) ==
    Task(task_data.id, task_data.required_skills, task_data.estimated_hours,
         task_data.priority, task_data.complexity, task_data.dependencies)

\* what load_workflow leaves of a controller ctl for the content save_data
\* of the file: the state and the history are replaced, the plan is
\* replaced when the file holds one, the saved employees and tasks are added
\* to the task agent's, and the saved assignments and conversation are not
\* read
Loaded(save_data, ctl) ==
    LET plan_data == save_data.pm_agent_data.current_plan
        task_data == save_data.task_agent_data
    IN  [state |-> save_data.state,
         pm_agent_plan |-> IF plan_data # None THEN PlanFromDict(plan_data)
                           ELSE ctl.pm_agent_plan,
         current_plan |-> IF plan_data # None THEN PlanFromDict(plan_data)
                          ELSE ctl.current_plan,
         employees |->
             ctl.employees \o [i \in 1..Len(task_data.employees) |->
                                  EmployeeFromDict(task_data.employees[i])],
         tasks |-> ctl.tasks \o [i \in 1..Len(task_data.tasks) |->
                                    TaskFromDict(task_data.tasks[i])],
         assignments |-> ctl.assignments,
         workflow_history |-> save_data.workflow_history]

\* the controller as the fields load_workflow reads or writes
Controller ==
    [state |-> state, pm_agent_plan |-> pm_agent_plan,
     current_plan |-> current_plan, employees |-> employees, tasks |-> tasks,
     assignments |-> assignments, workflow_history |-> workflow_history]

\* load_workflow("workflow_autosave.json")
load_workflow ==
    /\ UNCHANGED planner_vars
    /\ IF autosave = None
       THEN /\ response' = [op |-> "load_workflow", msg |-> "not_found"]
            /\ UNCHANGED <<engine_vars, state, current_plan, pm_agent_plan,
                           conversation_history, workflow_history, autosave>>
       ELSE LET l == Loaded(autosave, Controller)
                added == Len(l.employees) + Len(l.tasks)
                             > Len(employees) + Len(tasks)
            IN  /\ state' = l.state
                /\ pm_agent_plan' = l.pm_agent_plan
                /\ current_plan' = l.current_plan
                /\ employees' = l.employees
                /\ tasks' = l.tasks
                /\ workflow_history' = l.workflow_history
                /\ outcome' = IF added THEN "none" ELSE outcome
                /\ error_id' = IF added THEN 0 ELSE error_id
                /\ last_choice' = IF added THEN NoChoice ELSE last_choice
                /\ prev_run' = IF added THEN NoRun ELSE prev_run
                /\ response' = [op |-> "load_workflow", msg |-> "loaded"]
                /\ UNCHANGED <<assignments, pc, sorted_tasks, idx,
                               conversation_history, autosave>>

\* the program is started again: WorkflowController() builds a new
\* controller with new agents, and the storage directory keeps its file
new_controller ==
    /\ UNCHANGED planner_vars
    /\ employees' = <<>>
    /\ tasks' = <<>>
    /\ assignments' = <<>>
    /\ pc' = "idle"
    /\ sorted_tasks' = <<>>
    /\ idx' = 0
    /\ outcome' = "none"
    /\ error_id' = 0
    /\ last_choice' = NoChoice
    /\ prev_run' = NoRun
    /\ state' = "planning"
    /\ current_plan' = None
    /\ pm_agent_plan' = None
    /\ conversation_history' = <<>>
    /\ workflow_history' = <<>>
    /\ response' = [op |-> "new_controller", msg |-> "none"]
    /\ UNCHANGED autosave

\* -------------------------------------------- operations of the plan editor
\* what a command prints is not kept: the state is the locals of the loop

\* a direct call apply_edits_to_steps(original_steps, edits)
apply_edits_to_steps(original_steps, batch) ==
    /\ call' = [made |-> TRUE,
                original_steps |-> original_steps,
                edits |-> batch,
                after |-> ApplyEditsToSteps(original_steps, batch).original_steps,
                result |-> ApplyEditsToSteps(original_steps, batch).steps]
    /\ UNCHANGED <<engine_vars, controller_vars, steps, edits, loop_pc,
                   rebuilt>>

\* int(word) on the words that occur: the number, or ValueError
IntWords == -1..9
ParseInt(word) ==
    IF \E i \in IntWords : ToString(i) = word
    THEN [ok |-> TRUE, value |-> CHOOSE i \in IntWords : ToString(i) = word]
    ELSE [ok |-> FALSE, value |-> 0]

\* interactive_edit_loop(original_plan, ...) up to its first prompt
interactive_edit_loop(plan_steps) ==
    /\ loop_pc = "start"
    /\ steps' = plan_steps
    /\ edits' = <<>>
    /\ loop_pc' = "loop"
    /\ UNCHANGED <<engine_vars, controller_vars, rebuilt, call>>

\* show: the preview is printed; steps is the argument of the call
cmd_show ==
    /\ loop_pc = "loop"
    /\ steps' = ApplyEditsToSteps(steps, edits).original_steps
    /\ UNCHANGED <<engine_vars, controller_vars, edits, loop_pc, rebuilt,
                   call>>

\* queue: the queued edits are printed
cmd_queue ==
    /\ loop_pc = "loop"
    /\ UNCHANGED vars

cmd_apply ==
    /\ loop_pc = "loop"
    /\ steps' = ApplyEditsToSteps(steps, edits).steps
    /\ edits' = <<>>
    /\ UNCHANGED <<engine_vars, controller_vars, loop_pc, rebuilt, call>>

\* edit <index> <new text>
cmd_edit(parts) ==
    /\ loop_pc = "loop"
    /\ Lower(parts[1]) = "edit"
    /\ IF Len(parts) < 3 \/ ~ParseInt(parts[2]).ok
       THEN UNCHANGED edits
       ELSE edits' = Append(edits,
                            [action |-> "edit",
                             index |-> ParseInt(parts[2]).value,
                             task |-> Join(SubSeq(parts, 3, Len(parts)))])
    /\ UNCHANGED <<engine_vars, controller_vars, steps, loop_pc, rebuilt,
                   call>>

\* add [index] <text>
cmd_add(parts) ==
    /\ loop_pc = "loop"
    /\ Lower(parts[1]) = "add"
    /\ IF Len(parts) < 2
       THEN UNCHANGED edits
       ELSE edits' =
               IF ParseInt(parts[2]).ok
               THEN Append(edits,
                           [action |-> "add",
                            index |-> ParseInt(parts[2]).value,
                            task |-> IF Len(parts) >= 3
                                     THEN Join(SubSeq(parts, 3, Len(parts)))
                                     ELSE NewStepText])
               ELSE Append(edits,
                           [action |-> "add",
                            task |-> Join(SubSeq(parts, 2, Len(parts)))])
    /\ UNCHANGED <<engine_vars, controller_vars, steps, loop_pc, rebuilt,
                   call>>

\* remove <index>
cmd_remove(parts) ==
    /\ loop_pc = "loop"
    /\ Lower(parts[1]) = "remove"
    /\ IF Len(parts) # 2 \/ ~ParseInt(parts[2]).ok
       THEN UNCHANGED edits
       ELSE edits' = Append(edits, [action |-> "remove",
                                    index |-> ParseInt(parts[2]).value])
    /\ UNCHANGED <<engine_vars, controller_vars, steps, loop_pc, rebuilt,
                   call>>

\* move <from_index> <to_index>
cmd_move(parts) ==
    /\ loop_pc = "loop"
    /\ Lower(parts[1]) = "move"
    /\ IF Len(parts) # 3 \/ ~ParseInt(parts[2]).ok \/ ~ParseInt(parts[3]).ok
       THEN UNCHANGED edits
       ELSE edits' = Append(edits, [action |-> "move",
                                    index |-> ParseInt(parts[2]).value,
                                    to_index |-> ParseInt(parts[3]).value])
    /\ UNCHANGED <<engine_vars, controller_vars, steps, loop_pc, rebuilt,
                   call>>

\* rebuild and export: the plan built from the preview is printed
cmd_rebuild ==
    /\ loop_pc = "loop"
    /\ steps' = ApplyEditsToSteps(steps, edits).original_steps
    /\ UNCHANGED <<engine_vars, controller_vars, edits, loop_pc, rebuilt,
                   call>>

\* save <filename.json>: the plan built from the preview is written
cmd_save(parts) ==
    /\ loop_pc = "loop"
    /\ Lower(parts[1]) = "save"
    /\ IF Len(parts) # 2
       THEN UNCHANGED steps
       ELSE steps' = ApplyEditsToSteps(steps, edits).original_steps
    /\ UNCHANGED <<engine_vars, controller_vars, edits, loop_pc, rebuilt,
                   call>>

\* help, and a word that is no command
cmd_other(parts) ==
    /\ loop_pc = "loop"
    /\ Lower(parts[1]) \in {"help", "bogus"}
    /\ UNCHANGED vars

\* the steps the final plan is built from
FinalSteps_DropsQueue(ss, queue) == ss

FinalSteps(ss, queue) ==
    IF queue # <<>> THEN ApplyEditsToSteps(ss, queue).steps ELSE ss

\* exit, quit, done or the end of the input: the queue is applied and the
\* final plan is rebuilt
leave_loop ==
    /\ loop_pc = "loop"
    /\ steps' = FinalSteps(steps, edits)
    /\ edits' = <<>>
    /\ rebuilt' = RebuildPlanFromSteps(steps')
    /\ loop_pc' = "ended"
    /\ UNCHANGED <<engine_vars, controller_vars, call>>

\* ------------------------------------------------- inputs and specifications

TaskIds == 1..MaxTasks

\* Spec: the engine driven by add_employee, add_task and assign_tasks in any
\* order, so that runs follow one another and additions fall between them.
\* A task has the next unused id, 5 hours or none, one of two priorities and
\* at most one dependency, on any id; an employee has 8 hours.
RunTasks ==
    {Task(Len(tasks) + 1, <<>>, 5, p, "moderate", d) :
        p \in {"medium", "critical"},
        d \in {<<>>} \cup {<<i>> : i \in TaskIds}}
    \cup {Task(Len(tasks) + 1, <<>>, 0, "medium", "moderate", <<>>)}

RunEmployees == {Employee(Len(employees) + 1, <<>>, "senior", 8)}

Next ==
    \/ \E e \in RunEmployees :
           Len(employees) < MaxEmployees /\ add_employee(e)
    \/ \E t \in RunTasks : Len(tasks) < MaxTasks /\ add_task(t)
    \/ assign_tasks

Spec == Init /\ [][Next]_vars

\* SpecReload: the engine of Spec, where a data file may also be loaded at
\* any time between two calls, by load_from_json or by the command line's
\* load option. A file holds no or one employee and no or one task.
ReloadRosters == {<<>>, <<Employee(1, <<>>, "senior", 8)>>}

ReloadBacklogs == {<<>>, <<Task(1, <<>>, 5, "medium", "moderate", <<>>)>>}

NextReload ==
    \/ \E e \in RunEmployees :
           Len(employees) < MaxEmployees /\ add_employee(e)
    \/ \E t \in RunTasks : Len(tasks) < MaxTasks /\ add_task(t)
    \/ assign_tasks
    \/ \E roster \in ReloadRosters, backlog \in ReloadBacklogs :
           load_from_json(roster, backlog)
    \/ \E roster \in ReloadRosters, backlog \in ReloadBacklogs :
           cli_load(roster, backlog)

SpecReload == Init /\ [][NextReload]_vars

\* SpecOrder: backlogs for the ordering, on an engine without employees.
\* Dependency lists hold up to two different ids, in either order; the id of
\* a task is the next unused number or, for a task without dependencies, the
\* id of the first task again.
DependencyLists ==
    {<<>>} \cup {<<i>> : i \in TaskIds}
           \cup {d \in {<<i, j>> : i \in TaskIds, j \in TaskIds} :
                     d[1] # d[2]}

OrderTasks ==
    {Task(Len(tasks) + 1, <<>>, 5, "medium", "moderate", d) :
        d \in DependencyLists}
    \cup {Task(1, <<>>, 5, "medium", "moderate", <<>>)}

NextOrder ==
    \/ \E t \in OrderTasks : Len(tasks) < MaxTasks /\ add_task(t)
    \/ assign_tasks

SpecOrder == Init /\ [][NextOrder]_vars

\* SpecMatch: a new engine loads one data file and runs assign_tasks on it.
\* The tasks have no dependencies and vary in skills and hours
\* (estimated_hours is not validated by add_task or load_from_json, so 0 and
\* negative hours are inputs too); the employees vary in skills, experience
\* and availability.
MatchTaskKinds ==
    {<<<<>>, 10>>, <<<<"python">>, 10>>, <<<<>>, 0>>, <<<<>>, -3>>}

MatchEmployeeKinds ==
    {<<<<"python">>, "senior", 20>>, <<<<>>, "senior", 20>>,
     <<<<"python">>, "junior", 20>>, <<<<>>, "junior", 20>>,
     <<<<>>, "senior", 5>>, <<<<>>, "senior", 0>>}

MatchBacklogs ==
    UNION {{[i \in 1..n |->
                Task(i, k[i][1], k[i][2], "medium", "moderate", <<>>)] :
               k \in [1..n -> MatchTaskKinds]} : n \in 0..MaxTasks}

MatchRosters ==
    UNION {{[i \in 1..n |-> Employee(i, k[i][1], k[i][2], k[i][3])] :
               k \in [1..n -> MatchEmployeeKinds]} : n \in 0..MaxEmployees}

NewEngine ==
    employees = <<>> /\ tasks = <<>> /\ assignments = <<>> /\ outcome = "none"

NextMatch ==
    \/ /\ NewEngine
       /\ \E roster \in MatchRosters, backlog \in MatchBacklogs :
              load_from_json(roster, backlog)
    \/ assign_tasks

SpecMatch == Init /\ [][NextMatch]_vars

\* SpecScore: a new engine loads one data file and runs assign_tasks on it,
\* with up to MaxScored employees and one task, or two when a plain task of
\* 10 hours comes first and loads an employee.  The task covers the four
\* complexities, skill lists with one skill, two skills and one skill
\* written twice, and negative hours; the employees cover the four
\* experience levels and a level the table does not know, the skills, and a
\* short availability.
ScoreTaskKinds ==
    {<<<<>>, 10, c>> : c \in TaskComplexity}
    \cup {<<sk, 10, "moderate">> :
              sk \in {<<"python">>, <<"python", "sql">>,
                      <<"python", "python">>}}
    \cup {<<<<>>, -3, "moderate">>}

ScoreEmployeeKinds ==
    {<<<<>>, x, 20>> : x \in {"junior", "mid", "senior", "expert", "lead"}}
    \cup {<<sk, "senior", 20>> : sk \in {<<"python">>, <<"python", "sql">>}}
    \cup {<<<<>>, "senior", 5>>}

ScoreBacklogs ==
    {<<Task(1, k[1], k[2], "medium", k[3], <<>>)>> : k \in ScoreTaskKinds}
    \cup {<<Task(1, <<>>, 10, "medium", "moderate", <<>>),
            Task(2, k[1], k[2], "medium", k[3], <<>>)>> :
              k \in ScoreTaskKinds}

ScoreRosters ==
    UNION {{[i \in 1..n |-> Employee(i, k[i][1], k[i][2], k[i][3])] :
               k \in [1..n -> ScoreEmployeeKinds]} : n \in 1..MaxScored}

NextScore ==
    \/ /\ NewEngine
       /\ \E roster \in ScoreRosters, backlog \in ScoreBacklogs :
              load_from_json(roster, backlog)
    \/ assign_tasks

SpecScore == Init /\ [][NextScore]_vars

\* SpecWorkflow: a new controller driven through its four operations in any
\* order and any state.  The requirements name a mobile app, an API or
\* neither; a feedback approves, adds a requirement or a milestone, asks to
\* add while approving, or says nothing the agent acts on.
RequirementTexts ==
    {[words |-> {"app"}, clauses |-> <<"a shopping app", "with login">>,
      stripped |-> "a shopping app. with login"],
     [words |-> {"api"}, clauses |-> <<>>, stripped |-> "an api for orders"],
     [words |-> {}, clauses |-> <<>>, stripped |-> "a website"]}

FeedbackTexts ==
    {[words |-> {"approve"}, rest |-> "approve the plan"],
     [words |-> {"add", "requirement"}, rest |-> "user login"],
     [words |-> {"add", "milestone"}, rest |-> "security review"],
     [words |-> {"add", "approve"}, rest |-> "approve step"],
     [words |-> {}, rest |-> "looks good"]}

\* the project may be restarted and fed back on while the history and the
\* conversation are within their bounds
WithinBounds ==
    /\ Len(workflow_history) < MaxEvents
    /\ Len(conversation_history) < 2 + 2 * MaxFeedback

NextWorkflow ==
    \/ \E r \in RequirementTexts : WithinBounds /\ start_new_project(r)
    \/ \E f \in FeedbackTexts : WithinBounds /\ process_planning_feedback(f)
    \/ WithinBounds /\ transition_to_assignment
    \/ controller_assign_tasks

SpecWorkflow == Init /\ [][NextWorkflow]_vars

\* SpecStore: the controller of SpecWorkflow with save_workflow and
\* load_workflow on the file of the auto-save, and restarts of the program.
\* The project is a website; a feedback approves or says nothing the agent
\* acts on, so the plan keeps the milestones it was generated with.
\* Tasks are added, by a transition or a load, while the backlog is within
\* MaxStored.
StoreRequirements == {r \in RequirementTexts : r.words = {}}

StoreFeedback ==
    {f \in FeedbackTexts : f.words \in {{"approve"}, {}}}

BacklogWithinBounds == Len(tasks) < MaxStored

NextStore ==
    \/ \E r \in StoreRequirements : WithinBounds /\ start_new_project(r)
    \/ \E f \in StoreFeedback : WithinBounds /\ process_planning_feedback(f)
    \/ WithinBounds /\ BacklogWithinBounds /\ transition_to_assignment
    \/ controller_assign_tasks
    \/ save_workflow
    \/ BacklogWithinBounds /\ load_workflow
    \/ new_controller

SpecStore == Init /\ [][NextStore]_vars

\* direct calls of apply_edits_to_steps: lists of at most MaxSteps plan
\* steps and batches of at most MaxBatch edits, of which one is any edit of
\* EditPool and the others are valid edits of FollowPool
PlanStep(i) ==
    [task |-> <<"task", Whitespace, ToString(i)>>, inputs |-> <<>>,
     tool_id |-> "search_tool", output |-> None]

PlanSteps(n) == [i \in 1..n |-> PlanStep(i)]

Indices == -1..(MaxSteps + 1)

EditTexts == {<<"new">>, <<Whitespace>>, <<>>, <<Whitespace, "new", Whitespace>>}

EditPool ==
    {[action |-> "edit", index |-> i, task |-> t] :
        i \in Indices, t \in EditTexts}
    \cup {[action |-> "add", index |-> i, task |-> <<"more">>] : i \in Indices}
    \cup {[action |-> "remove", index |-> i] : i \in Indices}
    \cup {[action |-> "move", index |-> i, to_index |-> j] :
            i \in Indices, j \in Indices}
    \cup {[action |-> "edit", task |-> <<"new">>],
          [action |-> "edit", index |-> 0],
          [action |-> "add", task |-> <<"more">>],
          [action |-> "add"],
          [action |-> "add", index |-> 0],
          [action |-> "remove"],
          [action |-> "move", index |-> 0],
          [action |-> "move", to_index |-> 0],
          [action |-> "bogus", index |-> 0],
          [action |-> "Remove", index |-> 0],
          [index |-> 0]}

FollowPool ==
    {[action |-> "edit", index |-> 0, task |-> <<"next">>],
     [action |-> "add", task |-> <<"last">>],
     [action |-> "remove", index |-> 0],
     [action |-> "move", index |-> 0, to_index |-> 1]}

Batches ==
    {<<>>} \cup UNION {
        {[i \in 1..n |-> IF i = k THEN p ELSE f[i]] :
            p \in EditPool, f \in [1..n -> FollowPool]} :
        n \in 1..MaxBatch, k \in 1..MaxBatch}

NextEdits ==
    \E n \in 0..MaxSteps, batch \in Batches :
        ~call.made /\ apply_edits_to_steps(PlanSteps(n), batch)

SpecEdits == Init /\ [][NextEdits]_vars

\* a session of the interactive editor on a plan of at most MaxSteps steps,
\* with at most MaxQueue edits queued and at most MaxSteps steps applied;
\* a step is added to the queue while the preview has at most MaxSteps steps
LastIndex == ToString(MaxSteps)

EditCommands ==
    {<<"EDIT", "0", "new", "text">>, <<"edit", "0">>, <<"edit", "x", "new">>}

AddCommands ==
    {<<"add", "New", "step">>, <<"add", "0", "New", "step">>, <<"add", "0">>,
     <<"add">>}

RemoveCommands == {<<"remove", "0">>, <<"remove", "x">>, <<"remove">>}

MoveCommands ==
    {<<"move", "0", LastIndex>>, <<"move", "0", "x">>, <<"move", "0">>}

SaveCommands == {<<"save", "plan.json">>, <<"save">>}

OtherCommands == {<<"help">>, <<"bogus">>}

QueueWithinBounds == Len(edits) < MaxQueue

StepsWithinBounds == Len(ApplyEditsToSteps(steps, edits).steps) <= MaxSteps

NextPlanner ==
    \/ \E n \in 0..MaxSteps : interactive_edit_loop(PlanSteps(n))
    \/ cmd_show
    \/ cmd_queue
    \/ StepsWithinBounds /\ cmd_apply
    \/ \E parts \in EditCommands : QueueWithinBounds /\ cmd_edit(parts)
    \/ \E parts \in AddCommands :
           QueueWithinBounds /\ StepsWithinBounds /\ cmd_add(parts)
    \/ \E parts \in RemoveCommands : QueueWithinBounds /\ cmd_remove(parts)
    \/ \E parts \in MoveCommands : QueueWithinBounds /\ cmd_move(parts)
    \/ cmd_rebuild
    \/ \E parts \in SaveCommands : cmd_save(parts)
    \/ \E parts \in OtherCommands : cmd_other(parts)
    \/ leave_loop

SpecPlanner == Init /\ [][NextPlanner]_vars

\* ------------------------------------------------- vocabulary of the claims

UniqueIds(ts) == \A i, j \in 1..Len(ts) : ts[i].id = ts[j].id => i = j

DepsKnown(ts) ==
    \A i \in 1..Len(ts) : Range(ts[i].dependencies) \subseteq TaskDictKeys(ts)

PositiveHours(ts) == \A i \in 1..Len(ts) : ts[i].estimated_hours > 0

\* the dependency graph: an edge from a task's id to each id it depends on
DepEdges(ts) ==
    UNION {{<<ts[i].id, ts[i].dependencies[k]>> :
               k \in 1..Len(ts[i].dependencies)} : i \in 1..Len(ts)}

Successors(E, S) == {e[2] : e \in {x \in E : x[1] \in S}}

RECURSIVE Closure(_, _, _)

Closure(E, S, n) ==
    IF n = 0 THEN S ELSE Closure(E, S \cup Successors(E, S), n - 1)

\* the ids reached from a by one or more edges
ReachedFrom(ts, a) ==
    Closure(DepEdges(ts), Successors(DepEdges(ts), {a}),
            Cardinality(DepEdges(ts)))

OnCycle(ts, a) == a \in ReachedFrom(ts, a)

HasCycle(ts) == \E a \in TaskDictKeys(ts) : OnCycle(ts, a)

\* an assign_tasks call is in its loop, or was the last operation
CallMade == pc = "assigning" \/ outcome # "none"

\* position of the task with this id in a sequence of tasks (0: absent)
PositionOf(s, id) ==
    IF \E i \in 1..Len(s) : s[i].id = id
    THEN CHOOSE i \in 1..Len(s) : s[i].id = id
    ELSE 0

\* ------------------------------------------------------------------- claims

\* C1: a second assign_tasks call, with nothing added since the first one
\* returned, returns the same assignment list (same pairs, hours and order)
\* and leaves every employee with the same current_workload.
C1_Idempotent ==
    (pc = "idle" /\ outcome = "returned" /\ prev_run.valid)
        => /\ assignments = prev_run.assignments
           /\ Workloads(employees) = prev_run.workloads

\* a second call has returned, after a run that assigned two tasks to one
\* employee and left a third task out
C1_Witness ==
    /\ pc = "idle" /\ outcome = "returned" /\ prev_run.valid
    /\ Len(assignments) = 2 /\ Len(tasks) = 3
    /\ \E i \in 1..Len(employees) : employees[i].current_workload = 10

\* C2 as stated: whenever the dependency graph of the backlog has a cycle,
\* assign_tasks ends with the circular-dependency error, naming an id that
\* lies on a cycle.
C2_AnyCycleRaises ==
    (CallMade /\ HasCycle(tasks))
        => (outcome = "ValueError" /\ OnCycle(tasks, error_id))

\* C2, amended: the same for backlogs with unique task ids whose
\* dependencies all name backlog tasks.
C2_CycleRaises ==
    (CallMade /\ UniqueIds(tasks) /\ DepsKnown(tasks) /\ HasCycle(tasks))
        => (outcome = "ValueError" /\ OnCycle(tasks, error_id))

\* the error was raised for a cycle through all three tasks of a backlog
C2_Witness ==
    /\ outcome = "ValueError" /\ UniqueIds(tasks) /\ DepsKnown(tasks)
    /\ Len(tasks) = 3
    /\ \A i \in 1..3 : OnCycle(tasks, i) /\ Len(tasks[i].dependencies) = 1

\* C3: with unique task ids, dependencies that all name backlog tasks,
\* positive hours and no cycle, assign_tasks raises nothing, whatever the
\* roster: the call is in its loop or has returned its list.
C3_OnlyCircularError ==
    (CallMade /\ UniqueIds(tasks) /\ DepsKnown(tasks) /\ PositiveHours(tasks)
              /\ ~HasCycle(tasks))
        => (pc = "assigning" \/ outcome = "returned")

\* a call returned a partial list for such a backlog: two tasks that depend
\* on the third, and one employee who has no capacity left for the last one
C3_Witness ==
    /\ outcome = "returned" /\ Len(tasks) = 3 /\ Len(employees) = 1
    /\ DepsKnown(tasks) /\ PositiveHours(tasks) /\ ~HasCycle(tasks)
    /\ tasks[1].dependencies = <<3>> /\ tasks[2].dependencies = <<3>>
    /\ Len(assignments) = 2

\* a call returned the empty list for such a backlog and an empty roster
C3_WitnessEmptyRoster ==
    /\ outcome = "returned" /\ Len(tasks) = 3 /\ employees = <<>>
    /\ DepsKnown(tasks) /\ PositiveHours(tasks) /\ ~HasCycle(tasks)
    /\ assignments = <<>>

\* C4: a call that ends with the circular-dependency error returns no list
\* and leaves the stored assignments and every employee (so every
\* current_workload) as they were before the call.
C4_FailureLeavesState ==
    [][(pc = "idle" /\ outcome' = "ValueError")
          => (pc' = "idle" /\ assignments' = assignments
                /\ employees' = employees /\ tasks' = tasks)]_vars

\* the error was raised while the result of an earlier run was stored
C4_Witness ==
    /\ outcome = "ValueError" /\ pc = "idle"
    /\ Len(assignments) = 2
    /\ \E i \in 1..Len(employees) : employees[i].current_workload = 10

\* C5: for an acyclic backlog with unique ids and known dependencies the
\* visits raise nothing and build a permutation of the backlog in which every
\* task comes after each task it depends on.
C5_DependencyOrder ==
    (CallMade /\ UniqueIds(tasks) /\ DepsKnown(tasks) /\ ~HasCycle(tasks))
        => LET st == DependencyOrder(tasks)
               o == st.sorted
           IN  /\ st.err = "none"
               /\ Len(o) = Len(tasks)
               /\ \A i \in 1..Len(tasks) : \E k \in 1..Len(o) : o[k] = tasks[i]
               /\ \A a, b \in 1..Len(o) :
                      o[b].id \in Range(o[a].dependencies) => b < a

\* a run is under way for a chain 1 -> 2 -> 3 given in reverse of the order
\* the visits must build
C5_Witness ==
    /\ pc = "assigning" /\ Len(tasks) = 3 /\ UniqueIds(tasks)
    /\ tasks[1].dependencies = <<2>> /\ tasks[2].dependencies = <<3>>
    /\ tasks[3].dependencies = <<>>

\* C6: the matching order holds the tasks of the dependency order, is
\* non-increasing in priority and keeps the dependency order among tasks of
\* equal priority; the loop commits assignments in that order; so a dependency
\* of equal priority is handled before its dependent, and a dependent of
\* strictly higher priority before its dependency.
C6_PriorityOrder ==
    pc = "assigning" =>
        LET o == DependencyOrder(tasks).sorted
            s == sorted_tasks
        IN  /\ Len(s) = Len(o)
            /\ \A k \in 1..Len(o) : PositionOf(s, o[k].id) # 0
            /\ \A i, j \in 1..Len(s) :
                   i < j => /\ PriorityScore(s[i]) >= PriorityScore(s[j])
                            /\ PriorityScore(s[i]) = PriorityScore(s[j])
                                 => PositionOf(o, s[i].id)
                                      < PositionOf(o, s[j].id)
            /\ \A k, l \in 1..Len(assignments) :
                   k < l => /\ PositionOf(s, assignments[k].task_id)
                                 < PositionOf(s, assignments[l].task_id)
                            /\ PositionOf(s, assignments[l].task_id) < idx
            /\ (UniqueIds(tasks) /\ DepsKnown(tasks)) =>
                   \A a, b \in 1..Len(s) :
                       s[b].id \in Range(s[a].dependencies) =>
                           /\ PriorityScore(s[a]) = PriorityScore(s[b])
                                => b < a
                           /\ PriorityScore(s[a]) > PriorityScore(s[b])
                                => a < b

\* a run has matched three tasks: a critical task ahead of the medium task it
\* depends on, which came after its own medium dependency
C6_Witness ==
    /\ pc = "assigning" /\ idx = 4 /\ Len(assignments) = 2
    /\ UniqueIds(tasks) /\ DepsKnown(tasks)
    /\ \E a, b, c \in 1..3 :
           /\ a < b /\ c < b
           /\ sorted_tasks[a].priority = "critical"
           /\ sorted_tasks[b].priority = "medium"
           /\ sorted_tasks[c].priority = "medium"
           /\ sorted_tasks[b].id \in Range(sorted_tasks[a].dependencies)
           /\ sorted_tasks[c].id \in Range(sorted_tasks[b].dependencies)

\* the employees a choice skipped: no capacity left when the task was taken up
AllSkipped(emps) == \A i \in 1..Len(emps) : SkipsEmployee(emps[i])

\* C7: in a run, an employee whose current_workload has reached
\* availability_hours is not changed by any later turn of the loop and gets
\* none of the assignments it adds; an employee whose availability_hours is
\* 0 or less has no assignment in the list a run builds.
C7_CapacityCap ==
    /\ [][(pc = "assigning" /\ pc' = "assigning")
            => \A i \in 1..Len(employees) :
                   SkipsEmployee(employees[i])
                     => /\ employees'[i] = employees[i]
                        /\ Len(assignments') > Len(assignments)
                             => assignments'[Len(assignments')].employee_id
                                  # employees[i].id]_vars
    /\ [](CallMade
            => \A k \in 1..Len(assignments) : \A i \in 1..Len(employees) :
                   employees[i].id = assignments[k].employee_id
                     => employees[i].availability_hours > 0)

\* an employee reached its availability during the run and the next task
\* went to the other employee
C7_Witness ==
    /\ pc = "assigning" /\ last_choice.made
    /\ \E i, j \in 1..Len(employees) :
           /\ i # j
           /\ last_choice.before[i].current_workload = 20
           /\ last_choice.before[i].availability_hours = 20
           /\ last_choice.best = j

\* C8 as stated: whatever the task, it is left out exactly when every
\* employee is skipped for lack of capacity, and otherwise it is assigned.
C8_AsStated ==
    /\ (pc = "assigning" /\ last_choice.made)
         => (last_choice.best = 0 <=> AllSkipped(last_choice.before))
    /\ outcome # "ZeroDivisionError"

\* C8, amended: a task with positive estimated hours is left out exactly when
\* every employee has current_workload >= availability_hours at that moment
\* (the empty roster included) and is otherwise assigned to an employee; a
\* task left out changes nothing, and the loop goes on with the next task.
C8_OmittedIffNoCapacity ==
    (pc = "assigning" /\ last_choice.made
        /\ sorted_tasks[last_choice.task].estimated_hours > 0)
        => LET task == sorted_tasks[last_choice.task]
               before == last_choice.before
               best == last_choice.best
           IN  /\ best = 0 <=> AllSkipped(before)
               /\ idx = last_choice.task + 1
               /\ best = 0
                    => /\ employees = before
                       /\ \A k \in 1..Len(assignments) :
                              assignments[k].task_id # task.id
               /\ best # 0
                    => /\ assignments # <<>>
                       /\ assignments[Len(assignments)]
                            = TaskAssignment(task, before[best])

\* the second task of a run was left out with every employee at capacity,
\* after the first one was assigned
C8_Witness ==
    /\ pc = "assigning" /\ last_choice.made /\ last_choice.task = 2
    /\ last_choice.best = 0 /\ Len(employees) = 2
    /\ Len(assignments) = 1 /\ idx <= Len(sorted_tasks)
    /\ sorted_tasks[2].estimated_hours > 0

\* C9: for a task with positive hours the only employee with capacity left
\* gets the task however many hours it has, and its workload grows by them;
\* one employee with availability 5 and one task of 10 hours: the task is
\* assigned and the workload is 10 after the run.
C9_SoftCapacity ==
    /\ (pc = "assigning" /\ last_choice.made
          /\ sorted_tasks[last_choice.task].estimated_hours > 0)
         => \A i \in 1..Len(employees) :
                (/\ ~SkipsEmployee(last_choice.before[i])
                 /\ \A j \in 1..Len(employees) :
                        j # i => SkipsEmployee(last_choice.before[j]))
                  => /\ last_choice.best = i
                     /\ employees[i].current_workload
                          = last_choice.before[i].current_workload
                              + sorted_tasks[last_choice.task].estimated_hours
    /\ (outcome = "returned" /\ Len(tasks) = 1 /\ Len(employees) = 1
          /\ tasks[1].estimated_hours = 10
          /\ employees[1].availability_hours = 5)
         => /\ assignments = <<[task_id |-> tasks[1].id,
                                employee_id |-> employees[1].id,
                                assigned_hours |-> 10]>>
            /\ employees[1].current_workload = 10

\* the run of the scenario has returned: workload 10 with availability 5
C9_Witness ==
    /\ outcome = "returned" /\ Len(tasks) = 1 /\ Len(employees) = 1
    /\ tasks[1].estimated_hours = 10
    /\ employees[1].availability_hours = 5
    /\ employees[1].current_workload = 10

\* one employee has every required skill, the other none, and they agree in
\* experience level, availability and workload
SkillTwins(task, full, none) ==
    /\ task.required_skills # <<>>
    /\ Range(task.required_skills) \subseteq Range(full.skills)
    /\ Range(task.required_skills) \cap Range(none.skills) = {}
    /\ full.experience_level = none.experience_level
    /\ full.availability_hours = none.availability_hours
    /\ full.current_workload = none.current_workload

UniqueEmployeeIds(emps) ==
    \A i, j \in 1..Len(emps) : emps[i].id = emps[j].id => i = j

RECURSIVE AssignedHours(_, _, _)

\* the assigned_hours of the first n assignments that name this employee
AssignedHours(asg, n, employee_id) ==
    IF n = 0 THEN 0
    ELSE AssignedHours(asg, n - 1, employee_id)
         + (IF asg[n].employee_id = employee_id
            THEN asg[n].assigned_hours ELSE 0)

\* C11: in the loop of a run and after it (returned, or left by an error of
\* the loop), with unique employee ids, every current_workload is the sum of
\* the assigned_hours of the stored assignments naming that employee, every
\* assignment carries the estimated_hours of its task, and the roster a task
\* was scored against already held the hours of all assignments before it.
C11_CommitAccounting ==
    ((pc = "assigning" \/ outcome \in {"returned", "ZeroDivisionError"})
        /\ UniqueEmployeeIds(employees))
        => /\ \A i \in 1..Len(employees) :
                  employees[i].current_workload
                    = AssignedHours(assignments, Len(assignments),
                                    employees[i].id)
           /\ \A k \in 1..Len(assignments) :
                  /\ assignments[k].task_id \in TaskDictKeys(tasks)
                  /\ assignments[k].assigned_hours
                       = TaskDict(tasks, assignments[k].task_id).estimated_hours
           /\ (pc = "assigning" /\ last_choice.made)
                => LET earlier == Len(assignments)
                                    - (IF last_choice.best # 0 THEN 1 ELSE 0)
                   IN  \A i \in 1..Len(employees) :
                           last_choice.before[i].current_workload
                             = AssignedHours(assignments, earlier,
                                             employees[i].id)

\* the third task of a run went to an employee that already held the hours of
\* an earlier task, and now has 20
C11_Witness ==
    /\ pc = "assigning" /\ last_choice.made /\ last_choice.task = 3
    /\ Len(assignments) = 3 /\ Len(employees) = 2
    /\ last_choice.best # 0
    /\ last_choice.before[last_choice.best].current_workload = 10
    /\ employees[last_choice.best].current_workload = 20
    /\ \E i \in 1..2 : employees[i].current_workload = 10

\* C12: the step that enters the loop of a run leaves the stored list empty
\* and every current_workload 0; from then on the list holds one assignment
\* per task the loop has matched so far, each for a different task of the
\* matching order, so after the run it holds assignments of this run only and
\* at most one per backlog task.
C12_RunReplacesResult ==
    /\ [][(pc = "idle" /\ pc' = "assigning")
            => /\ assignments' = <<>>
               /\ \A i \in 1..Len(employees') :
                      employees'[i].current_workload = 0]_vars
    /\ [][(pc = "assigning" /\ pc' = "assigning")
            => \/ assignments' = assignments
               \/ \E i \in 1..Len(employees) :
                      assignments' =
                          Append(assignments,
                                 TaskAssignment(sorted_tasks[idx],
                                                employees[i]))]_vars
    /\ []((pc = "assigning" \/ outcome = "returned")
            => /\ Len(assignments) <= Len(tasks)
               /\ \A k, l \in 1..Len(assignments) :
                      assignments[k].task_id = assignments[l].task_id => k = l
               /\ \A k \in 1..Len(assignments) :
                      assignments[k].task_id \in TaskDictKeys(tasks)
               /\ pc = "assigning" => Len(assignments) <= idx - 1)

\* a second run has entered its loop: the two assignments the run before had
\* stored are gone
C12_Witness ==
    /\ pc = "assigning" /\ idx = 1 /\ assignments = <<>>
    /\ prev_run.valid /\ Len(prev_run.assignments) = 2
    /\ \E i \in 1..Len(employees) : prev_run.workloads[i] = 10

\* C13: whenever the summary can be asked for (no run under way) it reports
\* total_tasks = number of backlog tasks, assigned_tasks = number of stored
\* assignments, unassigned_tasks = their difference, and per employee the
\* utilization current_workload / availability_hours * 100, or 0 when the
\* availability is 0; an employee with availability 20 whose only assignment
\* is the run's single 10 hour task has utilization 50.
C13_Summary ==
    pc = "idle" =>
        LET summary == get_assignment_summary
        IN  /\ summary.total_tasks = Len(tasks)
            /\ summary.assigned_tasks = Len(assignments)
            /\ summary.unassigned_tasks
                 = summary.total_tasks - summary.assigned_tasks
            /\ summary.assignments = assignments
            /\ Len(summary.employee_workloads) = Len(employees)
            /\ \A i \in 1..Len(employees) :
                   LET w == summary.employee_workloads[i]
                       u == w.utilization_percentage
                   IN  /\ w.employee_id = employees[i].id
                       /\ w.current_workload = employees[i].current_workload
                       /\ w.availability = employees[i].availability_hours
                       /\ u.den > 0
                       /\ employees[i].availability_hours = 0 => u.num = 0
                       /\ employees[i].availability_hours > 0
                            => u.num * employees[i].availability_hours
                                 = 100 * employees[i].current_workload * u.den
                       /\ (/\ outcome = "returned"
                           /\ Len(assignments) = 1
                           /\ assignments[1].assigned_hours = 10
                           /\ assignments[1].employee_id = employees[i].id
                           /\ employees[i].availability_hours = 20)
                            => u.num = 50 * u.den

\* the run of the scenario has returned: the python task of 10 hours went to
\* the first of two employees with availability 20, whose utilization is 50
\* while the other one's is 0, and no task is unassigned
C13_Witness ==
    /\ pc = "idle" /\ outcome = "returned"
    /\ Len(tasks) = 1 /\ Len(employees) = 2
    /\ tasks[1].required_skills = <<"python">> /\ tasks[1].estimated_hours = 10
    /\ employees[1].availability_hours = 20
    /\ employees[2].availability_hours = 20
    /\ get_assignment_summary.unassigned_tasks = 0
    /\ get_assignment_summary.employee_workloads[1].utilization_percentage
         = [num |-> 1000, den |-> 20]
    /\ get_assignment_summary.employee_workloads[2].utilization_percentage.num
         = 0

\* the ids a backlog's dependency lists name
DependencyIds(ts) == UNION {Range(ts[i].dependencies) : i \in 1..Len(ts)}

\* the order holds, for every task id of the backlog, the task that task_dict
\* keeps for that id, once
CompleteOrder(ts, o) ==
    /\ {o[k].id : k \in 1..Len(o)} = TaskDictKeys(ts)
    /\ \A k \in 1..Len(o) : o[k] = TaskDict(ts, o[k].id)
    /\ \A k, l \in 1..Len(o) : o[k].id = o[l].id => k = l

\* no id was marked finished twice, and the body of visit ran at most once
\* per id
FinishedOnce(st) ==
    /\ \A k, l \in 1..Len(st.sorted) :
           st.sorted[k].id = st.sorted[l].id => k = l
    /\ {st.sorted[k].id : k \in 1..Len(st.sorted)} \subseteq st.visited
    /\ \A k, l \in 1..Len(st.entered) :
           st.entered[k] = st.entered[l] => k = l

\* C14 as stated: on every backlog the ordering ends with the complete order
\* or with the circular-dependency error, every id finished at most once and
\* never visited again.
C14_AsStated ==
    CallMade =>
        LET st == DependencyOrder(tasks)
        IN  /\ st.err \in {"none", "ValueError"}
            /\ st.err = "none" => CompleteOrder(tasks, st.sorted)
            /\ FinishedOnce(st)

\* C14, amended: the ordering ends with the complete order (one entry per
\* task id), with the circular-dependency error, or, only when a dependency
\* id names no backlog task, with a KeyError for such an id; every id is
\* marked finished at most once, the body of visit runs at most once per id,
\* so at most once per id the backlog or its dependency lists name.
C14_OrderingEnds ==
    CallMade =>
        LET st == DependencyOrder(tasks)
        IN  /\ st.err \in {"none", "ValueError", "KeyError"}
            /\ st.err = "none" => CompleteOrder(tasks, st.sorted)
            /\ st.err = "KeyError"
                 => /\ st.err_id \in DependencyIds(tasks)
                    /\ st.err_id \notin TaskDictKeys(tasks)
            /\ st.err = "ValueError" => st.err_id \in TaskDictKeys(tasks)
            /\ FinishedOnce(st)
            /\ Len(st.entered)
                 <= Cardinality(TaskDictKeys(tasks) \cup DependencyIds(tasks))

\* a call returned for a backlog in which task 3 is reached three times: as a
\* dependency of 2, as a dependency of 1 when it is finished already, and by
\* the loop over the backlog; the body of visit ran once for each task
C14_Witness ==
    /\ outcome = "returned" /\ Len(tasks) = 3
    /\ tasks[1].dependencies = <<2, 3>>
    /\ tasks[2].dependencies = <<3>>
    /\ tasks[3].dependencies = <<>>
    /\ DependencyOrder(tasks).entered = <<1, 2, 3>>
    /\ Len(DependencyOrder(tasks).sorted) = 3

\* C15: process_planning_feedback called in a state other than PLANNING,
\* transition_to_assignment called in a state other than PLANNING_COMPLETE
\* and assign_tasks called in a state other than ASSIGNMENT answer with a
\* refusal and leave the workflow state, the controller's plan, the backlog,
\* the roster with its workloads, the assignments and the workflow history
\* as they were.
C15_GateRefuses ==
    [][(\/ response'.op = "process_planning_feedback" /\ state # "planning"
        \/ response'.op = "transition_to_assignment"
              /\ state # "planning_complete"
        \/ response'.op = "assign_tasks" /\ state # "assignment")
       => /\ response'.msg = "refused"
          /\ UNCHANGED <<state, current_plan, tasks, employees, assignments,
                         workflow_history>>]_vars

\* assign_tasks was refused in PLANNING_COMPLETE, on a controller whose task
\* agent holds a backlog and a roster from a transition before
C15_Witness ==
    /\ response = Refused("assign_tasks")
    /\ state = "planning_complete"
    /\ current_plan # None
    /\ tasks # <<>>
    /\ employees # <<>>
    /\ workflow_history # <<>>

\* C16 as stated: once transition_to_assignment has created the tasks, every
\* id in the dependency list of a task of the backlog is the id of a task of
\* the backlog, and no task depends on itself.
C16_DependenciesNameTasks ==
    response = [op |-> "transition_to_assignment", msg |-> "transitioned"]
    => \A i \in 1..Len(tasks) :
           /\ Range(tasks[i].dependencies) \subseteq TaskDictKeys(tasks)
           /\ tasks[i].id \notin Range(tasks[i].dependencies)

EventTypes(history) == [i \in 1..Len(history) |-> history[i].event_type]

\* a new controller has been taken through start_new_project, one feedback,
\* which approved the plan, and transition_to_assignment
DemoSequenceDone ==
    /\ state = "assignment"
    /\ EventTypes(workflow_history) =
           <<"project_started", "plan_approved", "transitioned_to_assignment">>
    /\ conversation_history = <<"pm", "agent", "pm", "agent">>

\* C17 as stated: the assign_tasks call that ends the sequence
\* start_new_project, approval, transition_to_assignment on a new controller
\* returns without an error and leaves the state ASSIGNMENT_COMPLETE and a
\* non-empty list of assignments.
C17_EndToEnd ==
    [][DemoSequenceDone /\ response'.op = "assign_tasks"
       => /\ outcome' = "returned"
          /\ state' = "assignment_complete"
          /\ assignments' # <<>>]_vars

\* the roster positions that pass the workload filter
Candidates(emps) ==
    {k \in 1..Len(emps) :
        emps[k].current_workload < emps[k].availability_hours}

\* the candidates no candidate outscores for the task
TopCandidates(emps, task) ==
    {k \in Candidates(emps) :
        \A j \in Candidates(emps) :
            CompositeScore(task, emps[k]) >= CompositeScore(task, emps[j])}

\* C18 as stated: the employee returned for a task is a candidate of maximum
\* composite score and the first such in roster order, and no employee is
\* returned only when there is no candidate.
C18_AsStated ==
    last_choice.made
    => LET emps == last_choice.before
           task == sorted_tasks[last_choice.task]
       IN  /\ last_choice.best # 0
               => /\ last_choice.best \in TopCandidates(emps, task)
                  /\ \A j \in TopCandidates(emps, task) :
                         last_choice.best <= j
           /\ last_choice.best = 0 => Candidates(emps) = {}

\* C18: the employee returned for a task is a candidate of maximum composite
\* score and the first such in roster order; no employee is returned exactly
\* when no candidate has a composite score above -1, the start of best_score
\* (no candidate at all, or only scores a task of negative hours pulls down
\* to -1 or below).
C18_SelectionTieBreak ==
    last_choice.made
    => LET emps == last_choice.before
           task == sorted_tasks[last_choice.task]
       IN  /\ last_choice.best # 0
               => /\ last_choice.best \in TopCandidates(emps, task)
                  /\ \A j \in TopCandidates(emps, task) :
                         last_choice.best <= j
           /\ last_choice.best = 0
               <=> \A k \in Candidates(emps) :
                       CompositeScore(task, emps[k]) <= 0 - ScoreScale(task)

\* two candidates share the best score and the first of them was returned
C18_Witness ==
    /\ last_choice.made
    /\ Cardinality(TopCandidates(last_choice.before,
                                 sorted_tasks[last_choice.task])) = 2
    /\ last_choice.best = 1

\* the employee holds every skill the task requires
HoldsAll(task, employee) ==
    Range(task.required_skills) \subseteq Range(employee.skills)

\* C19 as stated: for every employee scored in a matching step the skill
\* score is the share of the required skills the employee holds (1.0 when
\* none is required) and lies in [0, 1], and is 1.0 for an employee holding
\* every required skill; the experience score lies in [0, 1]; the
\* availability score is min(1.0, free hours / estimated_hours) and lies in
\* (0, 1].
C19_AsStated ==
    last_choice.made
    => LET emps == last_choice.before
           task == sorted_tasks[last_choice.task]
           H == task.estimated_hours
       IN  \A k \in Candidates(emps) :
               /\ 0 <= SkillMatchNum(task, emps[k])
               /\ SkillMatchNum(task, emps[k]) <= SkillMatchDen(task)
               /\ HoldsAll(task, emps[k])
                   => SkillMatchNum(task, emps[k]) = SkillMatchDen(task)
               /\ 0 <= ExperienceMatch10(task, emps[k])
               /\ ExperienceMatch10(task, emps[k]) <= 10
               /\ 0 < AvailabilityNum(emps[k], task)
               /\ AvailabilityNum(emps[k], task) <= Abs(H)

\* C19: for every employee scored in a matching step the skill score lies
\* in [0, 1] and, for an employee holding every required skill, is the
\* number of different required skills over the length of the list (1.0
\* when the list repeats no skill or is empty); the experience score lies in
\* [0.1, 1]; for a task of positive hours the availability score is
\* min(1.0, free hours / estimated_hours) and lies in (0, 1], for a task of
\* negative hours it is free hours / estimated_hours and is negative.
C19_SubScores ==
    last_choice.made
    => LET emps == last_choice.before
           task == sorted_tasks[last_choice.task]
           H == task.estimated_hours
       IN  \A k \in Candidates(emps) :
               LET free == emps[k].availability_hours
                               - emps[k].current_workload
               IN  /\ 0 <= SkillMatchNum(task, emps[k])
                   /\ SkillMatchNum(task, emps[k]) <= SkillMatchDen(task)
                   /\ HoldsAll(task, emps[k])
                       => SkillMatchNum(task, emps[k]) =
                              IF task.required_skills = <<>> THEN 1
                              ELSE Cardinality(Range(task.required_skills))
                   /\ 1 <= ExperienceMatch10(task, emps[k])
                   /\ ExperienceMatch10(task, emps[k]) <= 10
                   /\ H > 0
                       => /\ AvailabilityNum(emps[k], task) = Min(H, free)
                          /\ 0 < AvailabilityNum(emps[k], task)
                          /\ AvailabilityNum(emps[k], task) <= H
                   /\ H < 0
                       => /\ AvailabilityNum(emps[k], task) = 0 - free
                          /\ AvailabilityNum(emps[k], task) < 0

\* a task of two different skills and positive hours was matched with an
\* employee holding both scored, and one with less free time than the task
\* takes
C19_Witness ==
    /\ last_choice.made
    /\ LET emps == last_choice.before
           task == sorted_tasks[last_choice.task]
       IN  /\ Cardinality(Range(task.required_skills)) = 2
           /\ task.estimated_hours > 0
           /\ \E k \in Candidates(emps) : HoldsAll(task, emps[k])
           /\ \E k \in Candidates(emps) :
                  AvailabilityNum(emps[k], task) < task.estimated_hours

\* the position of x in the order s
RankIn(s, x) == CHOOSE i \in 1..Len(s) : s[i] = x

ExperienceOrder == <<"junior", "mid", "senior", "expert">>
ComplexityOrder == <<"simple", "moderate", "complex", "expert">>

\* the experience score, in tenths, of the table of C20 for an employee of
\* experience rank el and a task of complexity rank tl
ExperienceTable10(el, tl) ==
    IF el = tl THEN 10
    ELSE IF el > tl THEN 8
    ELSE Max(1, 10 - 3 * (tl - el))

\* C20: for every employee scored in a matching step, with the experience
\* and the complexity ranked 1..4, the experience score is 1.0 at equal
\* ranks, 0.8 for a higher employee rank and max(0.1, 1.0 - 0.3 * gap) for a
\* lower one (0.7, 0.4, 0.1 for a gap of 1, 2, 3); an employee whose
\* experience is none of the four known values is scored as a junior is.
C20_ExperienceMatch ==
    last_choice.made
    => LET emps == last_choice.before
           task == sorted_tasks[last_choice.task]
           tl == RankIn(ComplexityOrder, task.complexity)
       IN  \A k \in Candidates(emps) :
               IF emps[k].experience_level \in Range(ExperienceOrder)
               THEN LET el == RankIn(ExperienceOrder,
                                     emps[k].experience_level)
                    IN  /\ ExperienceMatch10(task, emps[k]) =
                               ExperienceTable10(el, tl)
                        /\ tl - el = 1
                            => ExperienceMatch10(task, emps[k]) = 7
                        /\ tl - el = 2
                            => ExperienceMatch10(task, emps[k]) = 4
                        /\ tl - el = 3
                            => ExperienceMatch10(task, emps[k]) = 1
               ELSE ExperienceMatch10(task, emps[k]) =
                        ExperienceMatch10(
                            task,
                            [emps[k] EXCEPT !.experience_level = "junior"])

\* a task of expert complexity was matched with a junior and an employee of
\* unknown experience scored
C20_Witness ==
    /\ last_choice.made
    /\ LET emps == last_choice.before
           task == sorted_tasks[last_choice.task]
       IN  /\ task.complexity = "expert"
           /\ \E k \in Candidates(emps) :
                  emps[k].experience_level = "junior"
           /\ \E k \in Candidates(emps) :
                  emps[k].experience_level \notin Range(ExperienceOrder)

\* C21: the workflow state changes only to PLANNING by start_new_project,
\* from PLANNING to PLANNING_COMPLETE by process_planning_feedback with the
\* planning agent's plan APPROVED, from PLANNING_COMPLETE to ASSIGNMENT by
\* transition_to_assignment, and from ASSIGNMENT to ASSIGNMENT_COMPLETE by an
\* assign_tasks that returned at least one assignment; start_new_project
\* always leaves PLANNING; COMPLETED is never entered; and in
\* PLANNING_COMPLETE, ASSIGNMENT and ASSIGNMENT_COMPLETE the controller's plan
\* is set and APPROVED.
C21_TransitionRelation ==
    /\ [][/\ response'.op = "start_new_project" => state' = "planning"
          /\ state' # state
              => \/ /\ state' = "planning"
                    /\ response'.op = "start_new_project"
                 \/ /\ state = "planning"
                    /\ state' = "planning_complete"
                    /\ response'.op = "process_planning_feedback"
                    /\ pm_agent_plan' # None
                    /\ pm_agent_plan'.status = "approved"
                 \/ /\ state = "planning_complete"
                    /\ state' = "assignment"
                    /\ response'.op = "transition_to_assignment"
                 \/ /\ state = "assignment"
                    /\ state' = "assignment_complete"
                    /\ response'.op = "assign_tasks"
                    /\ outcome' = "returned"
                    /\ assignments' # <<>>]_vars
    /\ [](/\ state \in WorkflowState \ {"completed"}
          /\ state \in {"planning_complete", "assignment",
                         "assignment_complete"}
              => current_plan # None /\ current_plan.status = "approved")

\* a second project has been approved and taken to ASSIGNMENT, and
\* assign_tasks has run there
C21_Witness ==
    /\ state = "assignment"
    /\ response.op = "assign_tasks"
    /\ response.msg # "refused"
    /\ Len(SelectSeq(workflow_history,
                     LAMBDA e : e.event_type = "project_started")) = 2

\* C22 as stated: after every start_new_project the planning agent's plan is
\* a DRAFT plan as generated from requirements, and the state goes from
\* PLANNING to PLANNING_COMPLETE only on a feedback classified as an approval
\* request.
C22_FreshPlanning ==
    [][/\ response'.op = "start_new_project"
           => /\ pm_agent_plan' # None
              /\ pm_agent_plan'.status = "draft"
              /\ \E r \in RequirementTexts :
                     pm_agent_plan' = GenerateInitialPlan(r)
       /\ state = "planning" /\ state' = "planning_complete"
           => response'.msg = "approve"]_vars

\* C23 as stated: in every state the workflow reaches, load_workflow
\* included, the task ids of the backlog are pairwise distinct and the
\* employee ids of the roster are pairwise distinct.
C23_UniqueIdentifiers == UniqueIds(tasks) /\ UniqueEmployeeIds(employees)

\* a controller as WorkflowController() builds it
NewController ==
    [state |-> "planning", pm_agent_plan |-> None, current_plan |-> None,
     employees |-> <<>>, tasks |-> <<>>, assignments |-> <<>>,
     workflow_history |-> <<>>]

\* C24 as stated: once save_workflow has written the file, loading the file
\* into a new controller gives the workflow state, the plan with every field
\* of every milestone, the employees with their workloads, the tasks and
\* the assignments of the controller that saved.
C24_RoundTrip ==
    response.op = "save_workflow"
    => LET l == Loaded(autosave, NewController)
       IN  /\ l.state = state
           /\ l.current_plan = current_plan
           /\ l.employees = employees
           /\ l.tasks = tasks
           /\ l.assignments = assignments

\* the words of the claims about step edits
RemoveAt(s, k) == SubSeq(s, 1, k - 1) \o SubSeq(s, k + 1, Len(s))

Count(s, x) == Cardinality({i \in 1..Len(s) : s[i] = x})

SameMultiset(a, b) ==
    \A x \in Range(a) \cup Range(b) : Count(a, x) = Count(b, x)

ActionOf(e) == Lower(Get(e, "action", ""))

HasIndexBelow(e, key, bound) ==
    ~Missing(e, key) /\ 0 <= e[key] /\ e[key] < bound

\* the list the k-th edit of the call's batch is applied to, and the list
\* it leaves
StepsBefore(k) ==
    ApplyEditsToSteps(call.original_steps, SubSeq(call.edits, 1, k - 1)).steps

StepsAfter(k) ==
    ApplyEditsToSteps(call.original_steps, SubSeq(call.edits, 1, k)).steps

\* the edits the claim lists as having no effect on a list of n steps
Ineffective(e, n) ==
    \/ ActionOf(e) \in {"edit", "remove"} /\ ~HasIndexBelow(e, "index", n)
    \/ ActionOf(e) = "edit" /\ Get(e, "task", <<>>) = <<>>
    \/ /\ ActionOf(e) = "move"
       /\ ~(HasIndexBelow(e, "index", n) /\ HasIndexBelow(e, "to_index", n + 1))
    \/ ActionOf(e) \notin {"edit", "add", "remove", "move"}

\* C25: a call of apply_edits_to_steps leaves its original_steps argument,
\* the list and every step record in it, as it was; and an edit of the batch
\* that is an edit or remove with a missing, negative or too large index, an
\* edit with empty text, a move with a missing or out-of-range index, or an
\* unknown action, has no effect: the call returns what it returns for the
\* batch without that edit, so the edits after it are applied to the list
\* the edits before it produced.
C25_SkipsInvalidEdits ==
    call.made
    => /\ call.after = call.original_steps
       /\ \A k \in 1..Len(call.edits) :
             Ineffective(call.edits[k], Len(StepsBefore(k)))
             => /\ StepsAfter(k) = StepsBefore(k)
                /\ call.result =
                      ApplyEditsToSteps(call.original_steps,
                                        RemoveAt(call.edits, k)).steps

\* an ineffective edit is followed by an edit that changes a step record of
\* a list that is not empty
C25_Witness ==
    /\ call.made
    /\ Len(call.edits) = 2
    /\ Len(call.original_steps) = MaxSteps
    /\ Ineffective(call.edits[1], MaxSteps)
    /\ call.edits[2] = [action |-> "edit", index |-> 0, task |-> <<"next">>]
    /\ call.result[1].task = <<"next">>
    /\ call.after[1].task # <<"next">>

\* what C26 says of an edit, add or remove e that takes the list before to
\* the list after
EditAsDocumented(e, before, after) ==
    LET n == Len(before)
    IN  /\ ActionOf(e) = "edit"
           /\ HasIndexBelow(e, "index", n)
           /\ Strip(Get(e, "task", <<>>)) # <<>>
           => /\ Len(after) = n
              /\ \A j \in 1..n :
                    /\ j # e.index + 1 => after[j] = before[j]
                    /\ \A f \in DOMAIN before[j] \ {"task"} :
                          after[j][f] = before[j][f]
              /\ after[e.index + 1].task = Strip(e.task)
        /\ ActionOf(e) = "add"
           => /\ Len(after) = n + 1
              /\ IF HasIndexBelow(e, "index", n + 1)
                 THEN /\ RemoveAt(after, e.index + 1) = before
                      /\ after[e.index + 1].task = Get(e, "task", NewStepText)
                 ELSE /\ SubSeq(after, 1, n) = before
                      /\ after[n + 1].task = Get(e, "task", NewStepText)
        /\ ActionOf(e) = "remove" /\ HasIndexBelow(e, "index", n)
           => /\ Len(after) = n - 1
              /\ after = RemoveAt(before, e.index + 1)

MoveAccepted(e, n) ==
    /\ ActionOf(e) = "move"
    /\ HasIndexBelow(e, "index", n)
    /\ HasIndexBelow(e, "to_index", n + 1)

\* a move that leaves the moved step at position place (counted from 0)
MovesTo(e, before, after, place) ==
    /\ Len(after) = Len(before)
    /\ SameMultiset(after, before)
    /\ place + 1 \in DOMAIN after
    /\ after[place + 1] = before[e.index + 1]
    /\ RemoveAt(after, place + 1) = RemoveAt(before, e.index + 1)

\* C26 as stated: every edit of a batch changes the list as documented, and
\* a move accepted by the index check (0 <= index < n, 0 <= to_index <= n)
\* puts the moved step at position to_index of the result.
C26_AsStated ==
    call.made
    => \A k \in 1..Len(call.edits) :
          /\ EditAsDocumented(call.edits[k], StepsBefore(k), StepsAfter(k))
          /\ MoveAccepted(call.edits[k], Len(StepsBefore(k)))
             => MovesTo(call.edits[k], StepsBefore(k), StepsAfter(k),
                        call.edits[k].to_index)

\* C26, amended: every edit of a batch changes the list as documented: a
\* valid edit keeps the length and changes only the task text at index; an
\* add gives length n+1, inserted at index when 0 <= index <= n and appended
\* otherwise; a valid remove gives length n-1 and keeps the order of the
\* rest; an accepted move keeps the length, the multiset of steps and the
\* order of the other steps, and puts the moved step at position to_index
\* when to_index < n and at the last position, n-1, when to_index = n.
C26_EditsAsDocumented ==
    call.made
    => \A k \in 1..Len(call.edits) :
          /\ EditAsDocumented(call.edits[k], StepsBefore(k), StepsAfter(k))
          /\ MoveAccepted(call.edits[k], Len(StepsBefore(k)))
             => MovesTo(call.edits[k], StepsBefore(k), StepsAfter(k),
                        Min(call.edits[k].to_index, Len(StepsBefore(k)) - 1))

\* a step is moved to to_index = n and ends last, after a step was added
C26_Witness ==
    /\ call.made
    /\ Len(call.original_steps) = MaxSteps
    /\ Len(call.edits) = 2
    /\ call.edits[1] = [action |-> "add", task |-> <<"last">>]
    /\ call.edits[2] = [action |-> "move", index |-> 0,
                        to_index |-> MaxSteps + 1]
    /\ call.result[MaxSteps + 1] = call.original_steps[1]
    /\ call.result[MaxSteps].task = <<"last">>

\* the words of the claim about the edit queue: a command as the help text
\* writes it, and the queue applied one edit after the other
WellFormed(parts) ==
    CASE Lower(parts[1]) = "edit" -> Len(parts) >= 3 /\ ParseInt(parts[2]).ok
      [] Lower(parts[1]) = "add" -> Len(parts) >= 2
      [] Lower(parts[1]) = "remove" ->
            Len(parts) = 2 /\ ParseInt(parts[2]).ok
      [] Lower(parts[1]) = "move" ->
            Len(parts) = 3 /\ ParseInt(parts[2]).ok /\ ParseInt(parts[3]).ok
      [] OTHER -> FALSE

RECURSIVE AppliedInOrder(_, _)
AppliedInOrder(ss, queue) ==
    IF queue = <<>>
    THEN ss
    ELSE AppliedInOrder(ApplyEditsToSteps(ss, <<Head(queue)>>).steps,
                        Tail(queue))

QueueCommand(parts) ==
    cmd_edit(parts) \/ cmd_add(parts) \/ cmd_remove(parts) \/ cmd_move(parts)

QueueCommands ==
    EditCommands \cup AddCommands \cup RemoveCommands \cup MoveCommands

\* C27: show, queue, rebuild, export and save leave the applied steps and the
\* queue as they were; a well-formed edit, add, remove or move leaves the
\* steps as they were and makes the queue longer by one edit at its end, and
\* a malformed one changes nothing; apply makes the steps the result of the
\* queue applied in order and empties the queue; and leaving the loop
\* applies the queue first, so the final plan has the task texts a show
\* just before would have printed.
C27_QueueProtocol ==
    [][/\ \/ cmd_show
          \/ cmd_queue
          \/ cmd_rebuild
          \/ \E parts \in SaveCommands : cmd_save(parts)
          => steps' = steps /\ edits' = edits
       /\ \A parts \in QueueCommands :
             QueueCommand(parts)
             => /\ steps' = steps
                /\ IF WellFormed(parts)
                   THEN /\ Len(edits') = Len(edits) + 1
                        /\ SubSeq(edits', 1, Len(edits)) = edits
                        /\ ActionOf(edits'[Len(edits')]) = Lower(parts[1])
                   ELSE edits' = edits
       /\ cmd_apply
          => steps' = AppliedInOrder(steps, edits) /\ edits' = <<>>
       /\ leave_loop
          => /\ steps' = AppliedInOrder(steps, edits)
             /\ rebuilt'.steps = PrintSteps(AppliedInOrder(steps, edits))]_vars

\* the loop was left with an add still queued: the final plan has more steps
\* than apply is given room for
C27_Witness ==
    /\ loop_pc = "ended"
    /\ rebuilt # None
    /\ Len(rebuilt.steps) = MaxSteps + 1
    /\ Len(steps) = MaxSteps + 1

\* C28 as stated: in every state the engine reaches by add_employee,
\* add_task, assign_tasks, load_from_json and the command line's load option,
\* every stored assignment names a task of the backlog and an employee of the
\* roster, and the summary's unassigned_tasks is not negative.
C28_ReferentialIntegrity ==
    /\ \A i \in 1..Len(assignments) :
          /\ assignments[i].task_id \in TaskDictKeys(tasks)
          /\ \E j \in 1..Len(employees) :
                employees[j].id = assignments[i].employee_id
    /\ get_assignment_summary.unassigned_tasks >= 0

\* the positions in the stored assignments that name the employee
AssignmentsOf(employee) ==
    {i \in 1..Len(assignments) : assignments[i].employee_id = employee.id}

LastOf(S) == CHOOSE i \in S : \A j \in S : j <= i

\* C29: after a run over tasks that all have positive hours, an employee no
\* assignment names has workload 0, and for an employee with assignments the
\* workload less the hours of the last task assigned to them is strictly
\* below availability_hours; and no step of the loop of such a run lowers a
\* workload.
C29_OverCommitment ==
    /\ [](outcome = "returned" /\ PositiveHours(tasks)
            /\ UniqueEmployeeIds(employees)
          => \A j \in 1..Len(employees) :
                IF AssignmentsOf(employees[j]) = {}
                THEN employees[j].current_workload = 0
                ELSE employees[j].current_workload
                       - assignments[LastOf(AssignmentsOf(employees[j]))]
                           .assigned_hours
                     < employees[j].availability_hours)
    /\ [][pc = "assigning" /\ PositiveHours(sorted_tasks)
          => \A j \in 1..Len(employees) :
                employees'[j].current_workload
                    >= employees[j].current_workload]_vars

\* a run over tasks with positive hours has returned: one employee is over
\* their availability and another was given nothing
C29_Witness ==
    /\ outcome = "returned"
    /\ tasks # <<>>
    /\ PositiveHours(tasks)
    /\ \E j \in 1..Len(employees) :
          employees[j].current_workload > employees[j].availability_hours
    /\ \E j \in 1..Len(employees) : AssignmentsOf(employees[j]) = {}

\* C30 as stated: a call of assign_tasks on a backlog in which a dependency
\* names an id of no backlog task ends with an error that is not the
\* circular-dependency error, returns nothing, and leaves the stored
\* assignments and every workload as they were.
C30_AsStated ==
    [][AssignBegin /\ ~DepsKnown(tasks)
       => /\ pc' = "idle"
          /\ outcome' \notin {"none", "returned", "ValueError"}
          /\ assignments' = assignments
          /\ employees' = employees]_vars

\* C30, amended: a call of assign_tasks on a backlog with unique task ids in
\* which a dependency names an id of no backlog task ends with an error
\* instead of passing over the id: the KeyError of the lookup when the
\* backlog has no dependency cycle, and that error or the
\* circular-dependency error when it has one; it returns nothing and leaves
\* the stored assignments and every workload as they were.
C30_UnknownDependency ==
    [][AssignBegin /\ ~DepsKnown(tasks) /\ UniqueIds(tasks)
       => /\ pc' = "idle"
          /\ outcome' \in {"KeyError", "ValueError"}
          /\ ~HasCycle(tasks) => outcome' = "KeyError"
          /\ assignments' = assignments
          /\ employees' = employees]_vars

\* the call failed on an unknown id while the result of an earlier run was
\* stored
C30_Witness ==
    /\ outcome = "KeyError" /\ pc = "idle"
    /\ ~DepsKnown(tasks) /\ ~HasCycle(tasks)
    /\ assignments # <<>>
    /\ \E j \in 1..Len(employees) : employees[j].current_workload > 0

====
